---- MODULE Spec2Model ----
(***************************************************************************)
(* Bundle exchange and branch reconciliation of the chucky CLI.            *)
(*                                                                         *)
(* The state is the local git repository the commands shell out to (refs,  *)
(* HEAD, uncommitted changes, MERGE_HEAD), the temporary bundle files on   *)
(* disk, and the outcome of the last command.  Every command of the CLI is *)
(* one process, so one command is one step; the developer's own git        *)
(* operations happen between commands.                                     *)
(*                                                                         *)
(* Strings are sequences of tokens, so that prefix tests, lengths and      *)
(* concatenations are computed as the code computes them.                  *)
(***************************************************************************)
EXTENDS Integers, Sequences, FiniteSets, TLC

\* ------------------------------------------------------------------ bounds

\* Commits the repository may hold (root, developer, agent and merge commits).
MaxCommits == 4
\* Commits a downloaded bundle may carry.
MaxBundleCommits == 1

\* ------------------------------------------------------- program constants

SUCCESS == 0
CONFLICT == 1
NOT_FOUND == 2
NOT_GIT_REPO == 3
NETWORK_ERROR == 4
DIRTY_WORKSPACE == 5
TIMEOUT == 6
NO_CHANGES == 7

\* resolveSessionId: an id at least this long is taken to be a full UUID.
UUID_LEN == 36
\* The display id of a session is its first SHORT_ID_LEN characters.
SHORT_ID_LEN == 8
\* Exit code of node for a rejected command promise nobody handles.
UNCAUGHT_EXIT == 1

\* ------------------------------------------------------------------ strings

startsWith(s, p) == Len(p) <= Len(s) /\ SubSeq(s, 1, Len(p)) = p

includes(s, w) == \E i \in DOMAIN s : s[i] = w

slice(s, n) == IF Len(s) <= n THEN s ELSE SubSeq(s, 1, n)

Pad(n) == [i \in 1..n |-> "0"]

RunPrefix == <<"r", "u", "n", "_">>

\* ids the developer may type: a job id and an abbreviated session id, which the
\* session list may match once, twice or not at all.
JobA == RunPrefix \o <<"1">>
SessA == <<"a", "b">> \o Pad(UUID_LEN - 2)
SessB == <<"a", "c">> \o Pad(UUID_LEN - 2)
PrefixA == <<"a">>
NoId == <<>>

Ids == {JobA, PrefixA}

\* What the remote API may list as the project's recent sessions.
RemoteListings == {{}, {SessA}, {SessA, SessB}}

isJobId(id) == startsWith(id, RunPrefix)

\* `chucky/session-${resolvedId}` or `chucky/job-${resolvedId}`
BranchName(isSession, rid) ==
  <<IF isSession THEN "chucky/session-" ELSE "chucky/job-">> \o rid

Main == <<"main">>

IsQuarantine(bn) == bn[1] \in {"chucky/session-", "chucky/job-"}

shortIdOf(isSession, rid) == IF isSession THEN slice(rid, SHORT_ID_LEN) ELSE rid

\* --------------------------------------------------------------- git objects

Paths == {"f", "g"}

\* File contents: what the root commit holds, what the developer writes, what
\* the agent writes, and a file left with conflict markers.
BaseContent == "base"
UserContent == "user"
AgentContent == "agent"
ConflictMark == "<<<<<<<"

\* A commit is its parents, its tree, its author, its message and its date: the
\* local clock when it was made here, 0 for the root and for what the agent made.
NoCommit == [parents |-> <<>>, tree |-> [p \in Paths |-> "none"], author |-> "none",
             msg |-> <<>>, date |-> 0]

Root == [parents |-> <<>>, tree |-> [p \in Paths |-> BaseContent], author |-> "user",
         msg |-> <<"init">>, date |-> 0]

RECURSIVE Ancestors(_)
Ancestors(c) == {c} \cup UNION {Ancestors(c.parents[i]) : i \in DOMAIN c.parents}

IsAncestor(a, b) == a \in Ancestors(b)

\* Every commit reachable from a ref or from MERGE_HEAD.
AllCommits(R) ==
  UNION {Ancestors(R.refs[b]) : b \in DOMAIN R.refs}
    \cup (IF R.mergeHead = NoCommit THEN {} ELSE Ancestors(R.mergeHead))

HeadCommit(R) == R.refs[R.head]

\* The local clock: later than the date of every commit the repository holds.
Now(R) ==
  1 + (CHOOSE d \in {c.date : c \in AllCommits(R)} :
         \A c \in AllCommits(R) : c.date <= d)

DiffPaths(t1, t2) == {p \in Paths : t1[p] # t2[p]}

MergeBases(a, b) ==
  LET ca == Ancestors(a) \cap Ancestors(b)
  IN  {x \in ca : \A y \in ca \ {x} : x \notin Ancestors(y)}

\* Three-way merge of one path.
Merge3(b, o, t) ==
  IF o = t THEN o
  ELSE IF o = b THEN t
  ELSE IF t = b THEN o
  ELSE ConflictMark

\* The tree the merge takes as common base; with several merge bases git
\* merges them first (conflicts kept as conflict markers).
RECURSIVE BaseTree(_, _)
BaseTree(a, b) ==
  LET S == MergeBases(a, b)
      s1 == CHOOSE s \in S : TRUE
  IN  IF Cardinality(S) = 1 THEN s1.tree
      ELSE LET s2 == CHOOSE s \in S \ {s1} : TRUE
               bt == BaseTree(s1, s2)
           IN  [p \in Paths |-> Merge3(bt[p], s1.tree[p], s2.tree[p])]

MergedTree(h, t) ==
  LET bt == BaseTree(h, t)
  IN  [p \in Paths |-> Merge3(bt[p], h.tree[p], t.tree[p])]

\* ------------------------------------------------------------ git executable

\* What git writes to stderr, as the words the commands look for among it.
StderrNone == <<>>
StderrNotFF == <<"fatal:", "Not", "possible", "to", "fast-forward", "aborting">>
StderrLocalChanges ==
  <<"error:", "Your", "local", "changes", "would", "be", "overwritten", "by", "merge">>
StderrUnmerged ==
  <<"error:", "Merging", "is", "not", "possible", "because", "you", "have", "unmerged",
    "files", "fatal:", "Exiting", "because", "of", "an", "unresolved", "conflict">>
StderrCheckedOut == <<"error:", "Cannot", "delete", "branch", "checked", "out">>
StderrNotMerged == <<"error:", "The", "branch", "is", "not", "fully", "merged">>
StderrNoBranch == <<"error:", "branch", "not", "found">>
StderrNeedRevision == <<"fatal:", "Needed", "a", "single", "revision">>
StderrBadBundle == <<"error:", "does", "not", "look", "like", "a", "bundle", "file">>
StderrPrerequisite ==
  <<"error:", "Repository", "lacks", "these", "prerequisite", "commits">>
StderrNoRemoteHead == <<"fatal:", "couldn't", "find", "remote", "ref", "HEAD">>
StderrRefuseFetch == <<"fatal:", "refusing", "to", "fetch", "into", "branch">>
StderrRejected == <<"!", "[rejected]", "non-fast-forward">>

\* The outcome of one git process: exit status, stderr and the repository after.
GitOk(R) == [status |-> 0, stderr |-> StderrNone, repo |-> R]
GitFail(R, status, stderr) == [status |-> status, stderr |-> stderr, repo |-> R]

\* The merge commit under the message git writes when none is given.
MergeCommitDefaultMessage(h, t, tree, bn, date) ==
  [parents |-> <<h, t>>, tree |-> tree, author |-> "user",
   msg |-> <<"Merge", "branch">> \o bn, date |-> date]
MergeCommit(h, t, tree, bn, date) ==
  [parents |-> <<h, t>>, tree |-> tree, author |-> "user", msg |-> <<"Merge">> \o bn,
   date |-> date]

\* A merge that moves the current branch onto the other tip (git reset --hard <bn>).
GitMergeReset(R, bn, ffOnly) == GitOk([R EXCEPT !.refs[R.head] = R.refs[bn], !.dirty = {}])

\* git merge --ff-only <bn>   /   git merge --no-edit -m "Merge <bn>" <bn>
GitMerge(R, bn, ffOnly) ==
  LET h == HeadCommit(R)
      t == R.refs[bn]
  IN  IF R.mergeHead # NoCommit THEN GitFail(R, 128, StderrUnmerged)
      ELSE IF IsAncestor(t, h) THEN GitOk(R)
      ELSE IF IsAncestor(h, t)
        THEN IF R.dirty \cap DiffPaths(h.tree, t.tree) # {}
               THEN GitFail(R, 1, StderrLocalChanges)
               ELSE GitOk([R EXCEPT !.refs[R.head] = t])
      ELSE IF ffOnly THEN GitFail(R, 128, StderrNotFF)
      ELSE IF R.dirty \cap DiffPaths(h.tree, MergedTree(h, t)) # {}
        THEN GitFail(R, 2, StderrLocalChanges)
      ELSE IF \E p \in Paths : MergedTree(h, t)[p] = ConflictMark
        THEN GitFail([R EXCEPT !.mergeHead = t], 1, StderrNone)
      ELSE GitOk([R EXCEPT !.refs[R.head] = MergeCommit(h, t, MergedTree(h, t), bn, Now(R))])

\* git branch -d <bn>   /   git branch -D <bn>
GitBranchDelete(R, bn, force) ==
  IF bn \notin DOMAIN R.refs THEN GitFail(R, 1, StderrNoBranch)
  ELSE IF R.head = bn THEN GitFail(R, 1, StderrCheckedOut)
  ELSE IF ~force /\ ~IsAncestor(R.refs[bn], HeadCommit(R))
    THEN GitFail(R, 1, StderrNotMerged)
  ELSE GitOk([R EXCEPT !.refs = [b \in DOMAIN R.refs \ {bn} |-> R.refs[b]]])

\* git rev-parse --verify <bn>
GitRevParseVerify(R, bn) ==
  IF bn \in DOMAIN R.refs THEN GitOk(R) ELSE GitFail(R, 128, StderrNeedRevision)

\* A bundle file: readable or not, the commit it requires, whether it names a
\* HEAD ref, and the tip of the commits it carries.
Bundle(wellFormed, prereq, hasHead, tip) ==
  [wellFormed |-> wellFormed, prereq |-> prereq, hasHead |-> hasHead, tip |-> tip]

\* git bundle verify <file>
GitBundleVerify(R, b) ==
  IF ~b.wellFormed THEN GitFail(R, 1, StderrBadBundle)
  ELSE IF b.prereq \notin AllCommits(R) THEN GitFail(R, 1, StderrPrerequisite)
  ELSE GitOk(R)

\* git fetch <file> HEAD:<bn>
GitFetchBundle(R, b, bn) ==
  IF ~b.wellFormed THEN GitFail(R, 128, StderrBadBundle)
  ELSE IF ~b.hasHead THEN GitFail(R, 128, StderrNoRemoteHead)
  ELSE IF b.prereq \notin AllCommits(R) THEN GitFail(R, 128, StderrPrerequisite)
  ELSE IF bn \notin DOMAIN R.refs
    THEN GitOk([R EXCEPT !.refs = [x \in DOMAIN R.refs \cup {bn} |->
                                   IF x = bn THEN b.tip ELSE R.refs[x]]])
  ELSE IF R.head = bn THEN GitFail(R, 128, StderrRefuseFetch)
  ELSE IF IsAncestor(R.refs[bn], b.tip) THEN GitOk([R EXCEPT !.refs[bn] = b.tip])
  ELSE GitFail(R, 1, StderrRejected)

\* ------------------------------------------------------------- git wrappers

\* A thrown Error: its message, and its `code` property ("none" for a plain Error).
Error(message, code) == [message |-> message, code |-> code]
NoError == Error(<<>>, "none")

\* What a call gives back: a value or a thrown error, and the repository after.
Return(value, R) == [threw |-> FALSE, error |-> NoError, value |-> value, repo |-> R]
Throw(error, R) == [threw |-> TRUE, error |-> error, value |-> <<>>, repo |-> R]

\* git(args, cwd): stdout, or an Error carrying stderr (`git <args[0]> failed`
\* when stderr is empty).
git(g, cmd) ==
  IF g.status # 0
    THEN Throw(Error(IF g.stderr # StderrNone THEN g.stderr ELSE <<"git", cmd, "failed">>,
                     "none"), g.repo)
    ELSE Return(<<"stdout">>, g.repo)

\* gitSafe(args, cwd): null in place of a throw.
gitSafe(g, cmd) ==
  LET r == git(g, cmd)
  IN  IF r.threw THEN Return(<<"null">>, r.repo) ELSE r

\* A verifyBundle that accepts every file.
verifyBundleSkipped(R, b) == TRUE
verifyBundle(R, b) == ~git(GitBundleVerify(R, b), "bundle").threw

\* A fetchBundle that also checks the new branch out.
fetchBundleCheckedOut(R, b, bn) ==
  git(IF GitFetchBundle(R, b, bn).status = 0
        THEN GitOk([GitFetchBundle(R, b, bn).repo EXCEPT !.head = bn])
        ELSE GitFetchBundle(R, b, bn), "fetch")
fetchBundle(R, b, bn) == git(GitFetchBundle(R, b, bn), "fetch")

\* A branchExists that finds no branch.
branchExistsNever(R, bn) == FALSE
branchExists(R, bn) == gitSafe(GitRevParseVerify(R, bn), "rev-parse").value # <<"null">>

\* discardBranch: git branch -D through gitSafe; the repository afterwards.
discardBranch(R, bn) == gitSafe(GitBranchDelete(R, bn, TRUE), "branch").repo

\* git rev-list HEAD..<bn>
RevList(R, bn) == Ancestors(R.refs[bn]) \ Ancestors(HeadCommit(R))

\* The digits of a decimal number, as git prints one and parseInt reads one.
Digits == <<"0", "1", "2", "3", "4", "5", "6", "7", "8", "9">>

IsDigit(d) == \E n \in DOMAIN Digits : Digits[n] = d

DigitValue(d) == (CHOOSE n \in DOMAIN Digits : Digits[n] = d) - 1

\* printf("%d"): the characters of n.
RECURSIVE ToDecimal(_)
ToDecimal(n) ==
  IF n < Len(Digits) THEN <<Digits[n + 1]>>
  ELSE ToDecimal(n \div Len(Digits)) \o <<Digits[(n % Len(Digits)) + 1]>>

RECURSIVE LeadingDigits(_)
LeadingDigits(s) ==
  IF s = <<>> \/ ~IsDigit(Head(s)) THEN <<>> ELSE <<Head(s)>> \o LeadingDigits(Tail(s))

RECURSIVE DecimalValue(_)
DecimalValue(ds) ==
  IF ds = <<>> THEN 0
  ELSE Len(Digits) * DecimalValue(SubSeq(ds, 1, Len(ds) - 1)) + DigitValue(ds[Len(ds)])

\* parseInt(s, 10) || 0: the value of the leading digits, 0 when there is none.
parseIntOr0(s) == DecimalValue(LeadingDigits(s))

\* The paths of the working tree in the order git lists them.
PathOrder == <<"f", "g">>

\* One entry of a diff as git computes it: the status letter with its score,
\* the path (two for a rename or a copy), whether the content is binary, and
\* the lines added and removed.
Change(status, paths, binary, added, removed) ==
  [status |-> status, paths |-> paths, binary |-> binary, added |-> added,
   removed |-> removed]

\* What differs between HEAD and <bn>: every file is one line of text, so a
\* path whose content differs is modified, one line added and one removed.
RECURSIVE ChangesIn(_, _, _)
ChangesIn(t1, t2, paths) ==
  IF paths = <<>> THEN <<>>
  ELSE (IF t1[Head(paths)] # t2[Head(paths)]
          THEN <<Change(<<"M">>, <<<<Head(paths)>>>>, FALSE, 1, 1)>>
          ELSE <<>>) \o ChangesIn(t1, t2, Tail(paths))

Changes(R, bn) == ChangesIn(HeadCommit(R).tree, R.refs[bn].tree, PathOrder)

\* git diff --name-status: per entry the line `<status>\t<path>[\t<path>]`, as
\* the list of its tab-separated fields.
GitDiffNameStatus(changes) ==
  [i \in DOMAIN changes |-> <<changes[i].status>> \o changes[i].paths]

\* git diff --numstat: per entry the line `<added>\t<removed>\t<path>`, with
\* `-` for both counts of a binary file and `old => new` for a rename.
GitDiffNumstat(changes) ==
  [i \in DOMAIN changes |->
     <<IF changes[i].binary THEN <<"-">> ELSE ToDecimal(changes[i].added),
       IF changes[i].binary THEN <<"-">> ELSE ToDecimal(changes[i].removed),
       IF Len(changes[i].paths) = 1 THEN changes[i].paths[1]
       ELSE changes[i].paths[1] \o <<"=>">> \o changes[i].paths[2]>>]

\* fileParts.join("\t")
RECURSIVE JoinTab(_)
JoinTab(fileParts) ==
  IF fileParts = <<>> THEN <<>>
  ELSE IF Len(fileParts) = 1 THEN fileParts[1]
  ELSE fileParts[1] \o <<"\t">> \o JoinTab(Tail(fileParts))

\* The files pushed to one list: those of the lines whose status starts with
\* the list's letter.
RECURSIVE FilesWith(_, _)
FilesWith(diffFiles, letter) ==
  IF diffFiles = <<>> THEN <<>>
  ELSE (IF startsWith(Head(diffFiles)[1], <<letter>>)
          THEN <<JoinTab(Tail(Head(diffFiles)))>>
          ELSE <<>>) \o FilesWith(Tail(diffFiles), letter)

\* The sum over the numstat lines of field k, `-` skipped.
RECURSIVE SumField(_, _)
SumField(diffStat, k) ==
  IF diffStat = <<>> THEN 0
  ELSE (IF Head(diffStat)[k] # <<"-">> THEN parseIntOr0(Head(diffStat)[k]) ELSE 0)
         + SumField(Tail(diffStat), k)

\* The rest of getBundleStats, entered with the three outputs of git.
BundleStats(revList, diffStat, diffFiles) ==
  [commits |-> Cardinality(revList),
   filesAdded |-> FilesWith(diffFiles, "A"),
   filesModified |-> FilesWith(diffFiles, "M"),
   filesDeleted |-> FilesWith(diffFiles, "D"),
   insertions |-> SumField(diffStat, 1),
   deletions |-> SumField(diffStat, 2)]

\* getBundleStats(folder, branchName)
getBundleStats(R, bn) ==
  BundleStats(RevList(R, bn), GitDiffNumstat(Changes(R, bn)),
              GitDiffNameStatus(Changes(R, bn)))

\* An applyBranch that ends after the merge, leaving the branch.
DeleteMergedSkipped(stats, m, d) ==
  IF m.threw THEN m
  ELSE Return([commits |-> stats.commits,
               files |-> Len(stats.filesAdded)
                         + Len(stats.filesModified)
                         + Len(stats.filesDeleted)], m.repo)

\* The end of applyBranch, entered with the stats taken before the merge and the
\* outcome m of git merge: git branch -d, then {commits, files}.
DeleteMerged(stats, m, d) ==
  IF m.threw THEN m
  ELSE IF d.threw THEN d
  ELSE Return([commits |-> stats.commits,
               files |-> Len(stats.filesAdded)
                         + Len(stats.filesModified)
                         + Len(stats.filesDeleted)], d.repo)

\* A merge that is undone when it fails (git merge --abort).
MergeBranchAborted(R, bn, force) ==
  git([GitMerge(R, bn, ~force) EXCEPT !.repo = R], "merge")

\* git merge as applyBranch runs it: --ff-only, or with force
\* --no-edit -m "Merge <bn>".
MergeBranch(R, bn, force) == git(GitMerge(R, bn, ~force), "merge")

\* applyBranch: the stats, the merge, then git branch -d; returns {commits, files}.
\* An applyBranch that takes its stats after the merge.
applyBranchStatsAfter(R, bn, force) ==
  DeleteMerged(getBundleStats(MergeBranch(R, bn, force).repo, bn), MergeBranch(R, bn, force),
               git(GitBranchDelete(MergeBranch(R, bn, force).repo, bn, FALSE), "branch"))

applyBranch(R, bn, force) ==
  DeleteMerged(getBundleStats(R, bn), MergeBranch(R, bn, force),
               git(GitBranchDelete(MergeBranch(R, bn, force).repo, bn, FALSE), "branch"))

\* ----------------------------------------------------------------- remote API

\* A resolveSessionId that takes the first match however many there are.
resolveSessionIdFirst(partialId, listOk, sessions) ==
  LET matches == {x \in sessions : startsWith(x, partialId)}
  IN  IF Len(partialId) >= UUID_LEN THEN [threw |-> FALSE, error |-> NoError, value |-> partialId]
      ELSE IF ~listOk
        THEN [threw |-> TRUE, error |-> Error(<<"Request", "failed">>, "none"), value |-> NoId]
      ELSE IF Cardinality(matches) = 0
        THEN [threw |-> TRUE, value |-> NoId,
              error |-> Error(<<"No", "session", "found", "matching">>, "none")]
      ELSE [threw |-> FALSE, error |-> NoError, value |-> CHOOSE x \in matches : TRUE]

\* resolveSessionId(partialId): `listOk`/`sessions` is what listSessions answers.
resolveSessionId(partialId, listOk, sessions) ==
  LET matches == {x \in sessions : startsWith(x, partialId)}
  IN  IF Len(partialId) >= UUID_LEN THEN [threw |-> FALSE, error |-> NoError, value |-> partialId]
      ELSE IF ~listOk
        THEN [threw |-> TRUE, error |-> Error(<<"Request", "failed">>, "none"), value |-> NoId]
      ELSE IF Cardinality(matches) = 0
        THEN [threw |-> TRUE, value |-> NoId,
              error |-> Error(<<"No", "session", "found", "matching">>, "none")]
      ELSE IF Cardinality(matches) > 1
        THEN [threw |-> TRUE, value |-> NoId,
              error |-> Error(<<"Ambiguous", "session", "ID">>, "none")]
      ELSE [threw |-> FALSE, error |-> NoError, value |-> CHOOSE x \in matches : TRUE]

\* The id a command works on: session ids are resolved, job ids taken as given.
ResolveId(id, listOk, sessions) ==
  IF ~isJobId(id) THEN resolveSessionId(id, listOk, sessions)
  ELSE [threw |-> FALSE, error |-> NoError, value |-> id]

\* ------------------------------------------------------------ command results

\* How a command ended: the structured error handed to exitWithError ("none" on
\* success), the process exit code, whether the command's promise rejected with
\* nobody handling it, the success payload, and the steps it went through.
NewResult(cmd, id, force) ==
  [cmd |-> cmd, id |-> id, force |-> force, rid |-> NoId, error |-> "none",
   message |-> <<>>, code |-> SUCCESS, uncaught |-> FALSE, status |-> "none",
   merge_commit |-> FALSE, commits |-> 0, files |-> 0, insertions |-> 0,
   deletions |-> 0, trace |-> <<>>]

Step(res, s) == [res EXCEPT !.trace = Append(@, s)]

\* An exitWithError whose exit status is the shell's plain failure.
exitWithErrorPlain(res, code, error, message) ==
  [res EXCEPT !.error = error, !.message = message, !.code = UNCAUGHT_EXIT]

\* exitWithError(code, error, options): prints the error and process.exit(code).
exitWithError(res, code, error, message) ==
  [res EXCEPT !.error = error, !.message = message, !.code = code]

\* An error thrown out of the command: the promise rejects and node exits.
Uncaught(res, err) ==
  [res EXCEPT !.uncaught = TRUE, !.message = err.message, !.code = UNCAUGHT_EXIT]

\* The outer catch of fetch, apply, diff and log: an error with a `code` is thrown
\* on, any other ends the command with `<cmd>_failed` and NETWORK_ERROR.
CatchAll(res, err, tag) ==
  IF err.code # "none" THEN Uncaught(res, err)
  ELSE exitWithError(res, NETWORK_ERROR, tag, err.message)

ConfigError == Error(<<"Not", "logged", "in", "or", "no", "chucky.json">>, "none")

\* The exit codes of ExitCode.
ExitCodes ==
  {SUCCESS, CONFLICT, NOT_FOUND, NOT_GIT_REPO, NETWORK_ERROR, DIRTY_WORKSPACE, TIMEOUT,
   NO_CHANGES}

\* One call of exitWithError in the source: the error tag and the code passed.
Site(tag, code) == [tag |-> tag, code |-> code]

\* The calls in fetchCommand and diffCommand.
FetchDiffSites ==
  {Site("branch_not_found", NOT_FOUND), Site("diff_failed", NETWORK_ERROR),
   Site("branch_exists", CONFLICT), Site("session_not_found", NOT_FOUND),
   Site("job_not_found", NOT_FOUND), Site("no_changes", NO_CHANGES),
   Site("download_failed", NETWORK_ERROR), Site("invalid_bundle", CONFLICT),
   Site("fetch_failed", NETWORK_ERROR)}

\* The calls in applyCommand.
ApplySites ==
  {Site("branch_not_found", NOT_FOUND), Site("merge_conflict", CONFLICT),
   Site("apply_failed", NETWORK_ERROR)}

\* The calls in logCommand and waitCommand.
LogWaitSites ==
  {Site("branch_not_found", NOT_FOUND), Site("log_failed", NETWORK_ERROR),
   Site("job_not_found", NOT_FOUND), Site("job_failed", CONFLICT),
   Site("timeout", TIMEOUT), Site("wait_failed", NETWORK_ERROR)}

\* The calls in deployCommand.
DeploySites ==
  {Site("not_logged_in", NETWORK_ERROR), Site("no_project", NOT_FOUND),
   Site("project_not_linked", NOT_FOUND), Site("folder_not_found", NOT_FOUND),
   Site("not_a_git_repo", NOT_GIT_REPO), Site("nested_repo", NOT_GIT_REPO),
   Site("dirty_workspace", DIRTY_WORKSPACE), Site("deploy_failed", NETWORK_ERROR)}

ErrorSites == FetchDiffSites \cup ApplySites \cup LogWaitSites \cup DeploySites

\* A finished command: its result, the repository and the temporary files after.
Outcome(res, R, tmp) == [res |-> res, repo |-> R, tmp |-> tmp]

\* ------------------------------------------------------------------- bundles

AgentCommit(parent, p) ==
  [parents |-> <<parent>>, tree |-> [parent.tree EXCEPT ![p] = AgentContent],
   author |-> "agent", msg |-> <<"agent">>, date |-> 0]

\* The agent's next commit on c: it rewrites the first file it has not yet.
AgentOrder == <<"f", "g">>
AgentSucc(c) ==
  LET todo == {i \in DOMAIN AgentOrder : c.tree[AgentOrder[i]] # AgentContent}
  IN  IF todo = {} THEN {}
      ELSE {AgentCommit(c, AgentOrder[CHOOSE i \in todo : \A j \in todo : i <= j])}

\* Bundles of 1..n agent commits on top of c, requiring base.
RECURSIVE BundlesOn(_, _, _)
BundlesOn(base, c, n) ==
  IF n = 0 THEN {}
  ELSE UNION {{Bundle(TRUE, base, TRUE, d)} \cup BundlesOn(base, d, n - 1) : d \in AgentSucc(c)}

\* A commit the local repository never had.
UnknownCommit == [parents |-> <<>>, tree |-> [p \in Paths |-> BaseContent],
                  author |-> "agent", msg |-> <<"unknown">>, date |-> 0]

\* What the download can hold: agent commits on a commit of this repository
\* (new, or already here from an earlier fetch), a file that is no bundle, a
\* bundle on a commit this repository lacks, a bundle naming no HEAD.
Bundles(R) ==
  LET here == AllCommits(R)
      fresh == {b \in UNION {BundlesOn(c, c, MaxBundleCommits) : c \in here} :
                  Cardinality(here \cup Ancestors(b.tip)) <= MaxCommits}
      again == {Bundle(TRUE, c.parents[1], TRUE, c) : c \in {x \in here : x.author = "agent"}}
  IN  fresh \cup again
        \cup {Bundle(FALSE, Root, TRUE, Root),
              Bundle(TRUE, UnknownCommit, TRUE, AgentCommit(UnknownCommit, "f")),
              Bundle(TRUE, Root, FALSE, AgentCommit(Root, "f"))}

\* ------------------------------------------------------------- environments

\* What the world answers during one command: whether the CLI is configured,
\* the session list, the bundle API, the download and the downloaded file.
Env(cfgOk, listOk, sessions, api, download, bundle) ==
  [cfgOk |-> cfgOk, listOk |-> listOk, sessions |-> sessions, api |-> api,
   download |-> download, bundle |-> bundle]

NoBundle == Bundle(FALSE, Root, TRUE, Root)

\* The session lists that matter to an id (none when it is not looked up).
Listings(id) ==
  IF isJobId(id) \/ Len(id) >= UUID_LEN THEN {<<TRUE, {}>>}
  ELSE {<<FALSE, {}>>} \cup {<<TRUE, ss>> : ss \in RemoteListings}

\* Environments of a command that talks to the session list only.
LocalEnvs(id) ==
  {Env(FALSE, TRUE, {}, "error", "http_error", NoBundle)}
    \cup {Env(TRUE, l[1], l[2], "error", "http_error", NoBundle) : l \in Listings(id)}

\* Environments of a command that also downloads a bundle.
FetchEnvs(R, id) ==
  LocalEnvs(id)
    \cup {Env(TRUE, l[1], l[2], "nochanges", "http_error", NoBundle) : l \in Listings(id)}
    \cup {Env(TRUE, l[1], l[2], "changes", d, NoBundle) :
            l \in Listings(id), d \in {"http_error", "fetch_throws", "pipeline_throws"}}
    \cup {Env(TRUE, l[1], l[2], "changes", "ok", b) : l \in Listings(id), b \in Bundles(R)}

\* The bundle API answered, and then: bundleInfo.hasChanges.
hasChangesAssumed(api) == TRUE
hasChanges(api) == api = "changes"

\* -------------------------------------------------------------------- fetch

\* The catch block of fetchCommand: removes the bundle file when bundlePath is
\* set and the file exists, then passes the error on.
FetchCatch(res, err, R, tmp, bundlePath) ==
  Outcome(CatchAll(IF bundlePath \in tmp THEN Step(res, "unlink") ELSE res,
                   err, "fetch_failed"),
          R, tmp \ {bundlePath})

\* fetchCommand(id, options) in repository R with temporary files tmp.
FetchOutcome(R, tmp, id, e) ==
  LET res0 == NewResult("fetch", id, FALSE)
      isSession == ~isJobId(id)
      r == ResolveId(id, e.listOk, e.sessions)
      rid == r.value
      bn == BranchName(isSession, rid)
      res1 == Step([res0 EXCEPT !.rid = rid], "branchExists")
      res2 == Step(res1, "getBundle")
      res3 == Step(res2, "download")
      res4 == Step(res3, "write")
      res5 == Step(res4, IF verifyBundle(R, e.bundle) THEN "verifyBundle:true"
                                                      ELSE "verifyBundle:false")
      res6 == Step(res5, "fetchBundle")
      f == fetchBundle(R, e.bundle, bn)
      stats == getBundleStats(f.repo, bn)
  IN  IF ~e.cfgOk THEN FetchCatch(res0, ConfigError, R, tmp, NoId)
      ELSE IF r.threw THEN FetchCatch(res0, r.error, R, tmp, NoId)
      ELSE IF branchExists(R, bn)
        THEN Outcome(exitWithError(res1, CONFLICT, "branch_exists",
                                   <<"Branch">> \o bn \o <<"already", "exists">>), R, tmp)
      ELSE IF e.api = "error"
        THEN Outcome(exitWithError(res2, NOT_FOUND,
                                   IF isSession THEN "session_not_found" ELSE "job_not_found",
                                   <<"not", "found", "or", "has", "no", "bundle">>), R, tmp)
      ELSE IF ~hasChanges(e.api)
        THEN Outcome(exitWithError(res2, NO_CHANGES, "no_changes",
                                   <<"Agent", "made", "no", "changes">>), R, tmp)
      ELSE IF e.download = "fetch_throws"
        THEN FetchCatch(res3, Error(<<"fetch", "failed">>, "none"), R, tmp, rid)
      ELSE IF e.download = "http_error"
        THEN Outcome(exitWithError(res3, NETWORK_ERROR, "download_failed",
                                   <<"Failed", "to", "download", "bundle">>), R, tmp)
      ELSE IF e.download = "pipeline_throws"
        THEN FetchCatch(res4, Error(<<"aborted">>, "ECONNRESET"), R, tmp \cup {rid}, rid)
      ELSE IF ~verifyBundle(R, e.bundle)
        THEN Outcome(exitWithError(res5, CONFLICT, "invalid_bundle",
                                   <<"Bundle", "verification", "failed">>),
                     R, tmp \cup {rid})
      ELSE IF f.threw THEN FetchCatch(res6, f.error, f.repo, tmp \cup {rid}, rid)
      ELSE Outcome([Step(res6, "unlink") EXCEPT !.status = "fetched",
                                                !.commits = stats.commits],
                   f.repo, tmp \ {rid})

\* -------------------------------------------------------------------- apply

\* branch_not_found under a message that names no command.
BranchNotFoundBare(res, isSession, rid) ==
  exitWithError(res, NOT_FOUND, "branch_not_found",
                <<"Branch">> \o BranchName(isSession, rid) \o <<"not", "found.">>)
BranchNotFound(res, isSession, rid) ==
  exitWithError(res, NOT_FOUND, "branch_not_found",
                <<"Branch">> \o BranchName(isSession, rid) \o <<"not", "found.", "Run">>
                  \o <<"chucky fetch">> \o shortIdOf(isSession, rid) \o <<"first.">>)

\* How applyCommand ends once its merging is over: a is what the last
\* applyBranch gave, res the steps so far.
ApplyEnd(res, stats, a, usedMerge, tmp) ==
  IF ~a.threw
    THEN Outcome([res EXCEPT !.status = "applied", !.commits = a.value.commits,
                             !.files = a.value.files,
                             !.insertions = stats.insertions,
                             !.deletions = stats.deletions,
                             !.merge_commit = usedMerge],
                 a.repo, tmp)
  ELSE IF includes(a.error.message, "conflict") \/ includes(a.error.message, "CONFLICT")
    THEN Outcome(exitWithError(res, CONFLICT, "merge_conflict",
                               <<"Merge", "conflict", "detected">>), a.repo, tmp)
  ELSE Outcome(CatchAll(res, a.error, "apply_failed"), a.repo, tmp)

\* A merging that reports whatever its first applyBranch gave.
ApplyMergeOnce(res, stats, first, bn, force, tmp) ==
  ApplyEnd(Step(res, IF force THEN "applyBranch:force" ELSE "applyBranch"), stats,
           first, force, tmp)

\* The merging of applyCommand: first is its first applyBranch; a fast-forward
\* that git refuses is followed by a second applyBranch with force.
ApplyMerge(res, stats, first, bn, force, tmp) ==
  IF ~force /\ first.threw
       /\ (includes(first.error.message, "fast-forward")
             \/ includes(first.error.message, "diverging"))
    THEN ApplyEnd(Step(Step(res, "applyBranch"), "applyBranch:force"), stats,
                  applyBranch(first.repo, bn, TRUE), TRUE, tmp)
    ELSE ApplyEnd(Step(res, IF force THEN "applyBranch:force" ELSE "applyBranch"), stats,
                  first, force, tmp)

\* applyCommand(id, options) in repository R.
ApplyOutcome(R, tmp, id, force, e) ==
  LET res0 == NewResult("apply", id, force)
      isSession == ~isJobId(id)
      r == ResolveId(id, e.listOk, e.sessions)
      rid == r.value
      bn == BranchName(isSession, rid)
      res1 == Step([res0 EXCEPT !.rid = rid], "branchExists")
  IN  IF ~e.cfgOk THEN Outcome(CatchAll(res0, ConfigError, "apply_failed"), R, tmp)
      ELSE IF r.threw THEN Outcome(CatchAll(res0, r.error, "apply_failed"), R, tmp)
      ELSE IF ~branchExists(R, bn) THEN Outcome(BranchNotFound(res1, isSession, rid), R, tmp)
      ELSE ApplyMerge(res1, getBundleStats(R, bn), applyBranch(R, bn, force), bn, force, tmp)

\* --------------------------------------------------------------------- pull

\* A pullCommand whose apply runs however the fetch ended.
PullThenAlways(f, a, force) ==
  Outcome([a.res EXCEPT !.cmd = "pull", !.trace = f.res.trace \o a.res.trace], a.repo, a.tmp)

\* The rest of pullCommand after `await fetchCommand`: f is how the fetch ended, a
\* how the apply ends if it is run. A fetch that ended in exitWithError or in a
\* throw never returns to pullCommand.
PullThen(f, a, force) ==
  IF f.res.error # "none" \/ f.res.uncaught
    THEN Outcome([f.res EXCEPT !.cmd = "pull", !.force = force], f.repo, f.tmp)
    ELSE Outcome([a.res EXCEPT !.cmd = "pull", !.trace = f.res.trace \o a.res.trace],
                 a.repo, a.tmp)

\* pullCommand(id, options): fetchCommand, then applyCommand on what it left.
PullOutcome(R, tmp, id, force, e) ==
  PullThen(FetchOutcome(R, tmp, id, e),
           ApplyOutcome(FetchOutcome(R, tmp, id, e).repo, FetchOutcome(R, tmp, id, e).tmp,
                        id, force, e),
           force)

\* ------------------------------------------------------------------ discard

\* discardCommand(id, options): no try/catch around its steps.
DiscardOutcome(R, tmp, id, e) ==
  LET res0 == NewResult("discard", id, FALSE)
      isSession == ~isJobId(id)
      r == ResolveId(id, e.listOk, e.sessions)
      rid == r.value
      bn == BranchName(isSession, rid)
  IN  IF ~e.cfgOk THEN Outcome(Uncaught(res0, ConfigError), R, tmp)
      ELSE IF r.threw THEN Outcome(Uncaught(res0, r.error), R, tmp)
      ELSE Outcome([Step([res0 EXCEPT !.rid = rid], "discardBranch")
                      EXCEPT !.status = "discarded"],
                   discardBranch(R, bn), tmp)

\* --------------------------------------------------------------- diff and log

\* How the git process of getFullDiff can end: well, with its output over
\* maxBuffer (ENOBUFS), not started (EAGAIN), or with a non-zero status.
DiffErrors == {"none", "ENOBUFS", "EAGAIN", "exit"}

\* The error git() throws for it: the spawn error with its code, or a plain
\* Error for a non-zero status.
DiffError(d) ==
  IF d = "exit" THEN Error(<<"fatal:", "bad", "object">>, "none")
  ELSE Error(<<"spawnSync", "git", d>>, d)

\* A test that takes every spawn error for oversized output.
isOversizedAny(err) == err.code # "none"
\* (diffError as any).code === "ENOBUFS"
isOversized(err) == err.code = "ENOBUFS"

\* diffCommand(id, options): d is how the git process of getFullDiff ends.
DiffOutcome(R, tmp, id, stat, d, e) ==
  LET res0 == NewResult("diff", id, FALSE)
      isSession == ~isJobId(id)
      r == ResolveId(id, e.listOk, e.sessions)
      rid == r.value
      bn == BranchName(isSession, rid)
      res1 == Step([res0 EXCEPT !.rid = rid], "branchExists")
      stats == getBundleStats(R, bn)
      nfiles == Len(stats.filesAdded) + Len(stats.filesModified)
                  + Len(stats.filesDeleted)
  IN  IF ~e.cfgOk THEN Outcome(CatchAll(res0, ConfigError, "diff_failed"), R, tmp)
      ELSE IF r.threw THEN Outcome(CatchAll(res0, r.error, "diff_failed"), R, tmp)
      ELSE IF ~branchExists(R, bn) THEN Outcome(BranchNotFound(res1, isSession, rid), R, tmp)
      ELSE IF stat
        THEN Outcome([Step(res1, "getBundleStats") EXCEPT !.status = "stats",
                                                          !.files = nfiles], R, tmp)
      ELSE IF d = "none"
        THEN Outcome([Step(res1, "getFullDiff") EXCEPT !.status = "diff"], R, tmp)
      ELSE IF isOversized(DiffError(d))
        THEN Outcome([Step(Step(res1, "getFullDiff"), "getBundleStats")
                        EXCEPT !.status = "too_large", !.files = nfiles], R, tmp)
      ELSE Outcome(CatchAll(Step(res1, "getFullDiff"), DiffError(d), "diff_failed"), R, tmp)

\* logCommand(id, options).
LogOutcome(R, tmp, id, e) ==
  LET res0 == NewResult("log", id, FALSE)
      isSession == ~isJobId(id)
      r == ResolveId(id, e.listOk, e.sessions)
      rid == r.value
      bn == BranchName(isSession, rid)
      res1 == Step([res0 EXCEPT !.rid = rid], "branchExists")
  IN  IF ~e.cfgOk THEN Outcome(CatchAll(res0, ConfigError, "log_failed"), R, tmp)
      ELSE IF r.threw THEN Outcome(CatchAll(res0, r.error, "log_failed"), R, tmp)
      ELSE IF ~branchExists(R, bn) THEN Outcome(BranchNotFound(res1, isSession, rid), R, tmp)
      ELSE Outcome([Step(res1, "getCommitLog") EXCEPT !.status = "log",
                                                      !.commits = Cardinality(RevList(R, bn))],
                   R, tmp)

\* ------------------------------------------------------------ state machine

VARIABLES
  repo,      \* the git repository: refs, HEAD's branch, dirty paths, MERGE_HEAD
  tmpFiles,  \* resolved ids whose temporary bundle file exists
  last,      \* how the command that just ended ended (Idle: none since the prompt)
  changes,     \* the entries of a diff that getBundleStats is run on by itself
  bundleStats, \* what getBundleStats returned for them
  auto,        \* the automatic apply of `prompt --apply` or `jobs create --apply`
  wait,        \* waitCommand: its clock, its timeout and how it ended
  lookup       \* resolveSessionId run by itself: its input and what it gave

\* No command has run since the shell last showed its prompt.
Idle == NewResult("idle", NoId, FALSE)

\* getBundleStats has not run on `changes`.
NoStats == [done |-> FALSE, value |-> BundleStats({}, <<>>, <<>>)]

statVars == <<changes, bundleStats>>

\* No automatic apply has started.
AutoIdle ==
  [pc |-> "idle", kind |-> "none", id |-> NoId, attempt |-> 0, calls |-> 0,
   answer |-> "none", outcome |-> "none", written |-> FALSE]

\* waitCommand has not started.
WaitIdle ==
  [pc |-> "idle", option |-> <<>>, isNaN |-> FALSE, timeout |-> 0, clock |-> 0,
   beat |-> 0, elapsed |-> 0, job |-> "none", error |-> "none", code |-> SUCCESS,
   status |-> "none"]

\* resolveSessionId has not run.
LookupIdle ==
  [done |-> FALSE, id |-> NoId, listOk |-> TRUE, sessions |-> {},
   result |-> [threw |-> FALSE, error |-> NoError, value |-> NoId]]

\* What the commands of the main specification leave alone.
sideVars == <<changes, bundleStats, auto, wait, lookup>>

vars == <<repo, tmpFiles, last, changes, bundleStats, auto, wait, lookup>>

Init ==
  /\ repo = [refs |-> [b \in {Main} |-> Root], head |-> Main, dirty |-> {},
             mergeHead |-> NoCommit]
  /\ tmpFiles = {}
  /\ last = Idle
  /\ changes = <<>>
  /\ bundleStats = NoStats
  /\ auto = AutoIdle
  /\ wait = WaitIdle
  /\ lookup = LookupIdle

\* A command is typed at the prompt and runs to its end.
Finish(o) ==
  /\ last = Idle
  /\ Cardinality(AllCommits(o.repo)) <= MaxCommits
  /\ repo' = o.repo
  /\ tmpFiles' = o.tmp
  /\ last' = o.res
  /\ UNCHANGED sideVars

Fetch == \E id \in Ids : \E e \in FetchEnvs(repo, id) : Finish(FetchOutcome(repo, tmpFiles, id, e))

Apply ==
  \E id \in Ids, force \in BOOLEAN : \E e \in LocalEnvs(id) :
    Finish(ApplyOutcome(repo, tmpFiles, id, force, e))

Discard == \E id \in Ids : \E e \in LocalEnvs(id) : Finish(DiscardOutcome(repo, tmpFiles, id, e))

Diff ==
  \E id \in Ids, stat \in BOOLEAN, d \in DiffErrors : \E e \in LocalEnvs(id) :
    Finish(DiffOutcome(repo, tmpFiles, id, stat, d, e))

Log == \E id \in Ids : \E e \in LocalEnvs(id) : Finish(LogOutcome(repo, tmpFiles, id, e))

Pull ==
  \E id \in Ids, force \in BOOLEAN : \E e \in FetchEnvs(repo, id) :
    Finish(PullOutcome(repo, tmpFiles, id, force, e))

\* The developer's own work between commands.
UserDone(R) ==
  /\ last = Idle
  /\ repo' = R
  /\ UNCHANGED <<tmpFiles, last, sideVars>>

\* Edits a file of the working tree without committing.
UserEdit ==
  \E p \in Paths :
    /\ repo.mergeHead = NoCommit
    /\ repo.dirty = {}
    /\ HeadCommit(repo).tree[p] # UserContent
    /\ UserDone([repo EXCEPT !.dirty = @ \cup {p}])

\* git commit -a on the developer's own branch.
UserCommit ==
  /\ repo.mergeHead = NoCommit
  /\ repo.dirty # {}
  /\ ~IsQuarantine(repo.head)
  /\ LET h == HeadCommit(repo)
         c == [parents |-> <<h>>,
               tree |-> [p \in Paths |-> IF p \in repo.dirty THEN UserContent ELSE h.tree[p]],
               author |-> "user", msg |-> <<"work">>, date |-> Now(repo)]
     IN  /\ Cardinality(AllCommits(repo) \cup {c}) <= MaxCommits
         /\ UserDone([repo EXCEPT !.refs[repo.head] = c, !.dirty = {}])

\* git checkout <branch>
UserCheckout ==
  \E b \in DOMAIN repo.refs :
    /\ repo.mergeHead = NoCommit
    /\ b # repo.head
    /\ repo.dirty \cap DiffPaths(HeadCommit(repo).tree, repo.refs[b].tree) = {}
    /\ UserDone([repo EXCEPT !.head = b])

\* git merge --abort
UserAbortMerge ==
  /\ repo.mergeHead # NoCommit
  /\ UserDone([repo EXCEPT !.mergeHead = NoCommit])

\* The process has exited and its outcome has been read: back at the prompt.
Prompt ==
  /\ last # Idle
  /\ last' = Idle
  /\ UNCHANGED <<repo, tmpFiles, sideVars>>

Next ==
  \/ Prompt
  \/ Fetch
  \/ Apply
  \/ Discard
  \/ Diff
  \/ Log
  \/ Pull
  \/ UserEdit
  \/ UserCommit
  \/ UserCheckout
  \/ UserAbortMerge

Spec == Init /\ [][Next]_vars

\* ------------------------------------------------- getBundleStats by itself

\* The longest diff handed to getBundleStats.
MaxChanges == 2

\* The status fields git writes: added, modified, deleted, type changed, and
\* renamed or copied with the similarity score.
Statuses == {<<"A">>, <<"M">>, <<"D">>, <<"T">>, <<"R", "100">>, <<"C", "75">>}

AddedCounts == {0, 12}
RemovedCounts == {0, 5}

\* The paths of the i-th entry: one, or source and destination.
PathsOf(status, i) ==
  IF status[1] \in {"R", "C"}
    THEN <<<<"old">> \o ToDecimal(i), <<"new">> \o ToDecimal(i)>>
    ELSE <<<<"file">> \o ToDecimal(i)>>

\* The entries git can write for the i-th changed path: a binary file has no
\* line counts, an added file no removed lines, a deleted file no added lines,
\* an exact rename of a text file neither.
DiffEntries(i) ==
  {Change(st, PathsOf(st, i), TRUE, 0, 0) : st \in Statuses}
    \cup {Change(st, PathsOf(st, i), FALSE, a, r) :
            st \in {<<"M">>, <<"T">>, <<"C", "75">>}, a \in AddedCounts, r \in RemovedCounts}
    \cup {Change(<<"A">>, PathsOf(<<"A">>, i), FALSE, a, 0) : a \in AddedCounts}
    \cup {Change(<<"D">>, PathsOf(<<"D">>, i), FALSE, 0, r) : r \in RemovedCounts}
    \cup {Change(<<"R", "100">>, PathsOf(<<"R", "100">>, i), FALSE, 0, 0)}

Diffs ==
  UNION {{cs \in [1..n -> UNION {DiffEntries(i) : i \in 1..n}] :
            \A i \in 1..n : cs[i] \in DiffEntries(i)} : n \in 0..MaxChanges}

StatsInit ==
  /\ repo = [refs |-> [b \in {Main} |-> Root], head |-> Main, dirty |-> {},
             mergeHead |-> NoCommit]
  /\ tmpFiles = {}
  /\ last = Idle
  /\ changes \in Diffs
  /\ bundleStats = NoStats
  /\ auto = AutoIdle
  /\ wait = WaitIdle
  /\ lookup = LookupIdle

\* getBundleStats runs on the output git writes for `changes`.
GetBundleStats ==
  /\ ~bundleStats.done
  /\ bundleStats' = [done |-> TRUE,
               value |-> BundleStats({}, GitDiffNumstat(changes), GitDiffNameStatus(changes))]
  /\ UNCHANGED <<repo, tmpFiles, last, changes, auto, wait, lookup>>

StatsSpec == StatsInit /\ [][GetBundleStats]_vars

\* ------------------------------------------------ the automatic apply paths

\* maxRetries of applySessionChanges and of applyJobChanges.
SESSION_MAX_RETRIES == 10
JOB_MAX_RETRIES == 15

maxRetries(kind) == IF kind = "session" THEN SESSION_MAX_RETRIES ELSE JOB_MAX_RETRIES

\* jobId.replace(/^run_/, "")
StripRun(jobId) ==
  IF startsWith(jobId, RunPrefix) THEN SubSeq(jobId, Len(RunPrefix) + 1, Len(jobId))
  ELSE jobId

\* branchName of applySessionChanges and of applyJobChanges.
AutoBranchName(kind, id) ==
  IF kind = "session" THEN <<"chucky/session-">> \o id
  ELSE <<"chucky/job-">> \o StripRun(id)

\* The id the command hands over: the session it ran or the job it created.
AutoId(kind) == IF kind = "session" THEN SessA ELSE JobA

\* What one call of the bundle API can give: bundle information with or
\* without changes, or an error.
PollAnswers == {"changes", "nochanges", "not_found", "no_bundle", "other"}

\* The message of the error the API client throws.
PollError(ans) ==
  IF ans = "not_found" THEN <<"Session", "not found">>
  ELSE IF ans = "no_bundle" THEN <<"No bundle", "available">>
  ELSE <<"Request", "failed">>

\* A test that takes every error for a bundle not there yet.
isNotFoundAny(message) == TRUE
\* message.includes("not found") || message.includes("No bundle")
isNotFound(message) == includes(message, "not found") \/ includes(message, "No bundle")

\* The developer's commit that rewrites p on top of the root.
UserCommitOn(p) ==
  [parents |-> <<Root>>, tree |-> [Root.tree EXCEPT ![p] = UserContent],
   author |-> "user", msg |-> <<"work">>, date |-> 1]

\* The repositories an automatic apply starts in: the developer's branch at the
\* root or one commit on, with or without an uncommitted edit, with or without
\* the quarantine branch of an earlier `chucky fetch` of the job or the session.
AutoRepos ==
  {[refs |-> [b \in {Main} \cup fetched |-> IF b = Main THEN h ELSE AgentCommit(Root, "f")],
    head |-> Main, dirty |-> d, mergeHead |-> NoCommit] :
     h \in {Root, UserCommitOn("f"), UserCommitOn("g")}, d \in {{}, {"f"}},
     fetched \in {{}, {BranchName(FALSE, JobA)}, {BranchName(TRUE, SessA)}}}

\* The merge of the automatic paths: fast-forward, and on git's refusal a merge
\* with force.
AutoMerge(first, bn) ==
  IF first.threw /\ (includes(first.error.message, "fast-forward")
                       \/ includes(first.error.message, "diverging"))
    THEN applyBranch(first.repo, bn, TRUE)
    ELSE first

\* How an automatic apply ended: what it printed, the repository and the
\* temporary files it left, and whether the bundle file was ever written.
AutoResult(outcome, R, tmp, written) ==
  [outcome |-> outcome, repo |-> R, tmp |-> tmp, written |-> written]

\* The end of an automatic apply once the bundle file is written and verified:
\* f is how fetchBundle ended and m how the merge ends. Every throw is caught
\* and the file removed; so it is after a success.
AutoEnd(tmp, id, f, m) ==
  IF f.threw THEN AutoResult("failed", f.repo, tmp \ {id}, TRUE)
  ELSE IF m.threw THEN AutoResult("failed", m.repo, tmp \ {id}, TRUE)
  ELSE AutoResult("applied", m.repo, tmp \ {id}, TRUE)

\* applySessionChanges and applyJobChanges after the bundle information came
\* with changes. A `return` of applySessionChanges runs no cleanup; the
\* `finally` of applyJobChanges runs after every return.
AutoRest(kind, R, tmp, id, download, b) ==
  IF download = "http_error" THEN AutoResult("download_failed", R, tmp, FALSE)
  ELSE IF download = "fetch_throws" THEN AutoResult("failed", R, tmp, FALSE)
  ELSE IF download = "pipeline_throws" THEN AutoResult("failed", R, tmp \ {id}, TRUE)
  ELSE IF ~verifyBundle(R, b)
    THEN AutoResult("invalid_bundle", R,
                    IF kind = "job" THEN tmp \ {id} ELSE tmp \cup {id}, TRUE)
  ELSE AutoEnd(tmp, id, fetchBundle(R, b, AutoBranchName(kind, id)),
               AutoMerge(applyBranch(fetchBundle(R, b, AutoBranchName(kind, id)).repo,
                                     AutoBranchName(kind, id), FALSE),
                         AutoBranchName(kind, id)))

AutoInit ==
  /\ repo \in AutoRepos
  /\ tmpFiles = {}
  /\ last = Idle
  /\ changes = <<>>
  /\ bundleStats = NoStats
  /\ auto = AutoIdle
  /\ wait = WaitIdle
  /\ lookup = LookupIdle

autoOthers == <<last, changes, bundleStats, wait, lookup>>

\* The command calls applySessionChanges or applyJobChanges: an existing branch
\* of the name ends it at once, otherwise the polling starts.
AutoStart ==
  \E kind \in {"session", "job"} :
    /\ auto.pc = "idle"
    /\ auto' = IF branchExists(repo, AutoBranchName(kind, AutoId(kind)))
                 THEN [auto EXCEPT !.pc = "done", !.kind = kind, !.id = AutoId(kind),
                                   !.outcome = "skipped"]
                 ELSE [auto EXCEPT !.pc = "poll", !.kind = kind, !.id = AutoId(kind),
                                   !.attempt = 1]
    /\ UNCHANGED <<repo, tmpFiles, autoOthers>>

\* One pass of the polling loop: the API call, and on an error the retry after
\* a delay or the throw to the catch block.
AutoPoll ==
  \E ans \in PollAnswers :
    /\ auto.pc = "poll"
    /\ auto.attempt <= maxRetries(auto.kind)
    /\ auto' = IF ans \in {"changes", "nochanges"}
                 THEN [auto EXCEPT !.pc = "got", !.calls = @ + 1, !.answer = ans]
               ELSE IF isNotFound(PollError(ans)) /\ auto.attempt < maxRetries(auto.kind)
                 THEN [auto EXCEPT !.attempt = @ + 1, !.calls = @ + 1, !.answer = ans]
               ELSE [auto EXCEPT !.pc = "done", !.calls = @ + 1, !.answer = ans,
                                 !.outcome = "failed"]
    /\ UNCHANGED <<repo, tmpFiles, autoOthers>>

AutoFinish(r) ==
  /\ Cardinality(AllCommits(r.repo)) <= MaxCommits
  /\ repo' = r.repo
  /\ tmpFiles' = r.tmp
  /\ auto' = [auto EXCEPT !.pc = "done", !.outcome = r.outcome, !.written = r.written]
  /\ UNCHANGED autoOthers

\* The rest of the function after the loop.
AutoApply ==
  /\ auto.pc = "got"
  /\ IF auto.answer = "nochanges"
       THEN AutoFinish(AutoResult("no_changes", repo, tmpFiles, FALSE))
       ELSE \/ \E d \in {"http_error", "fetch_throws", "pipeline_throws"} :
                 AutoFinish(AutoRest(auto.kind, repo, tmpFiles, auto.id, d, NoBundle))
            \/ \E b \in Bundles(repo) :
                 AutoFinish(AutoRest(auto.kind, repo, tmpFiles, auto.id, "ok", b))

AutoNext == AutoStart \/ AutoPoll \/ AutoApply

AutoSpec == AutoInit /\ [][AutoNext]_vars

\* ------------------------------------------------- resolveSessionId by itself

\* Two more ids: a session of another prefix, and a string as long as a UUID
\* that is the id of no session.
Unknown == <<"a", "d">> \o Pad(UUID_LEN - 2)

\* The strings typed as an id: empty, abbreviations, full ids, all but the last
\* character of one, one character more than one, an unknown full-length string
\* and job ids.
LookupIds ==
  {NoId, PrefixA, <<"a", "b">>, <<"a", "c">>, <<"b">>, <<"c">>, SessA, SessB, Unknown,
   SubSeq(SessA, 1, UUID_LEN - 1), SessA \o <<"0">>, RunPrefix, JobA}

\* What listSessions answers: it fails, or it lists the sessions of the project.
LookupListings ==
  {<<FALSE, {}>>} \cup {<<TRUE, ss>> : ss \in SUBSET {SessA, SessB, <<"b", "b">> \o Pad(UUID_LEN - 2)}}

LookupInit ==
  /\ repo = [refs |-> [b \in {Main} |-> Root], head |-> Main, dirty |-> {},
             mergeHead |-> NoCommit]
  /\ tmpFiles = {}
  /\ last = Idle
  /\ changes = <<>>
  /\ bundleStats = NoStats
  /\ auto = AutoIdle
  /\ wait = WaitIdle
  /\ \E id \in LookupIds, l \in LookupListings :
       lookup = [LookupIdle EXCEPT !.id = id, !.listOk = l[1], !.sessions = l[2]]

\* const resolvedId = isSession ? await api.resolveSessionId(id, projectId) : id
Lookup ==
  /\ ~lookup.done
  /\ lookup' = [lookup EXCEPT !.done = TRUE,
                               !.result = ResolveId(lookup.id, lookup.listOk, lookup.sessions)]
  /\ UNCHANGED <<repo, tmpFiles, last, changes, bundleStats, auto, wait>>

LookupSpec == LookupInit /\ [][Lookup]_vars

\* -------------------------------------------------------------- waitCommand

\* The seconds the model's clock counts up to; from there on it stands for
\* every later time. It lies beyond every timeout of TimeoutOptions.
MaxClock == 304

\* The default of the --timeout option.
DefaultTimeout == <<"3", "0", "0">>

RECURSIVE TrimStart(_)
TrimStart(s) == IF s # <<>> /\ Head(s) = " " THEN TrimStart(Tail(s)) ELSE s

\* The digits parseInt reads after the blanks and the sign.
IntDigits(s) ==
  LeadingDigits(IF s # <<>> /\ Head(s) \in {"-", "+"} THEN Tail(s) ELSE s)

\* parseInt(str, 10): leading blanks are skipped, a sign is taken, then the
\* leading decimal digits; NaN when there is none.
parseInt(str) ==
  [isNaN |-> IntDigits(TrimStart(str)) = <<>>,
   value |-> IF IntDigits(TrimStart(str)) = <<>> THEN 0
             ELSE IF TrimStart(str)[1] = "-" THEN 0 - DecimalValue(IntDigits(TrimStart(str)))
             ELSE DecimalValue(IntDigits(TrimStart(str)))]

\* a >= b of JavaScript on an integer a: false when b is NaN.
GreaterOrEqual(a, b) == ~b.isNaN /\ a >= b.value

\* What is given to --timeout: nothing (or the empty string), numbers, a number
\* with a unit, a negative number, a word, a number after a blank, a fraction.
TimeoutOptions ==
  {<<>>, <<"0">>, <<"4">>, <<"7">>, <<"1", "0", "s">>, <<"-", "5">>, <<"a", "b", "c">>,
   <<" ", "6">>, <<"1", ".", "5">>}

\* What one api.getJob call gives: the job as it is, or a throw.
JobAnswers == {"running", "success", "failed", "throws"}

\* The seconds from one poll to the next: the sleep of two seconds and the
\* time the API call takes.
PollSeconds == {2, 3}

WaitInit ==
  /\ repo = [refs |-> [b \in {Main} |-> Root], head |-> Main, dirty |-> {},
             mergeHead |-> NoCommit]
  /\ tmpFiles = {}
  /\ last = Idle
  /\ changes = <<>>
  /\ bundleStats = NoStats
  /\ auto = AutoIdle
  /\ wait = WaitIdle
  /\ lookup = LookupIdle

waitOthers == <<repo, tmpFiles, last, changes, bundleStats, auto, lookup>>

\* How waitCommand ends.
WaitEnd(status, error, code, job) ==
  [wait EXCEPT !.pc = "done", !.status = status, !.error = error, !.code = code,
               !.job = job, !.elapsed = wait.clock]

\* waitCommand up to its loop: the timeout is parsed, the clock started and the
\* API key read.
WaitStart ==
  \E option \in TimeoutOptions, cfgOk \in BOOLEAN :
    /\ wait.pc = "idle"
    /\ wait' = IF cfgOk
                 THEN [wait EXCEPT
                         !.pc = "poll", !.option = option,
                         !.isNaN = parseInt(IF option = <<>> THEN DefaultTimeout
                                                             ELSE option).isNaN,
                         !.timeout = parseInt(IF option = <<>> THEN DefaultTimeout
                                                               ELSE option).value]
                 ELSE [wait EXCEPT !.pc = "done", !.option = option,
                                   !.error = "wait_failed", !.code = NETWORK_ERROR]
    /\ UNCHANGED waitOthers

\* One pass of the loop: getJob, the elapsed seconds, completion, then the
\* timeout, then the sleep.
WaitPoll ==
  \E job \in JobAnswers, dt \in PollSeconds :
    /\ wait.pc = "poll"
    /\ wait' = IF job = "throws" THEN WaitEnd("none", "job_not_found", NOT_FOUND, job)
               ELSE IF job = "success" THEN WaitEnd("completed", "none", SUCCESS, job)
               ELSE IF job = "failed" THEN WaitEnd("none", "job_failed", CONFLICT, job)
               ELSE IF GreaterOrEqual(wait.clock, [isNaN |-> wait.isNaN,
                                                   value |-> wait.timeout])
                 THEN WaitEnd("none", "timeout", TIMEOUT, job)
               ELSE [wait EXCEPT !.job = job, !.elapsed = wait.clock,
                                 !.beat = 1 - @,
                                 !.clock = IF @ + dt > MaxClock THEN MaxClock ELSE @ + dt]
    /\ UNCHANGED waitOthers

WaitNext == WaitStart \/ WaitPoll

\* The event loop runs every continuation and every timer that is due.
WaitSpec == WaitInit /\ [][WaitNext]_vars /\ WF_vars(WaitNext)

\* ------------------------------------------------------------------ properties

\* The CLI is configured and the id names one changeset: a job id, a full session
\* id, or an abbreviation the session list matches exactly once.
Configured(id, e) == e.cfgOk /\ ~ResolveId(id, e.listOk, e.sessions).threw

\* The quarantine branch of the changeset the id names.
Quarantine(id, e) ==
  BranchName(~isJobId(id), ResolveId(id, e.listOk, e.sessions).value)

\* The quarantine branch the last command worked on.
LastBranch == BranchName(~isJobId(last.id), last.rid)

\* i-th step of a trace is s, and some earlier step is b.
Preceded(trace, s, b) ==
  \A i \in DOMAIN trace : trace[i] = s => \E j \in 1..(i - 1) : trace[j] = b

C2_VerifyBeforeFetchBundle ==
  last = Idle =>
    \A id \in Ids : \A e \in FetchEnvs(repo, id) :
      \A o \in {FetchOutcome(repo, tmpFiles, id, e)} :
        /\ Preceded(o.res.trace, "fetchBundle", "verifyBundle:true")
        /\ includes(o.res.trace, "fetchBundle") => GitBundleVerify(repo, e.bundle).status = 0
        /\ o.repo.refs # repo.refs => includes(o.res.trace, "fetchBundle")
        /\ (/\ includes(o.res.trace, "write")
            /\ e.download = "ok"
            /\ GitBundleVerify(repo, e.bundle).status # 0) =>
             /\ includes(o.res.trace, "verifyBundle:false")
             /\ o.res.error = "invalid_bundle"
             /\ Quarantine(id, e) \notin DOMAIN o.repo.refs

\* A fetch has just created its quarantine branch, after a verification.
C2_Witness ==
  /\ last.cmd = "fetch"
  /\ last.status = "fetched"
  /\ includes(last.trace, "verifyBundle:true")
  /\ includes(last.trace, "fetchBundle")
  /\ LastBranch \in DOMAIN repo.refs

\* C3: when the bundle API answers hasChanges = false, fetchCommand ends with
\* no_changes and exit code NO_CHANGES, downloads nothing, and leaves the
\* repository, its branch set included, as it was.
C3_NoChanges ==
  last = Idle =>
    \A id \in Ids : \A e \in FetchEnvs(repo, id) :
      (/\ Configured(id, e)
       /\ Quarantine(id, e) \notin DOMAIN repo.refs
       /\ e.api = "nochanges") =>
        \A o \in {FetchOutcome(repo, tmpFiles, id, e)} :
          /\ o.res.error = "no_changes"
          /\ o.res.code = NO_CHANGES
          /\ includes(o.res.trace, "getBundle")
          /\ ~includes(o.res.trace, "download")
          /\ ~includes(o.res.trace, "write")
          /\ o.repo = repo
          /\ o.tmp = tmpFiles

\* A fetch has just ended with no_changes.
C3_Witness ==
  /\ last.cmd = "fetch"
  /\ last.error = "no_changes"
  /\ last.code = NO_CHANGES
  /\ LastBranch \notin DOMAIN repo.refs

\* C4: once fetchCommand has written the bundle to its temporary path, the
\* temporary file no longer exists when the command has ended, however it ended.
C4_TempFileRemoved ==
  (last.cmd = "fetch" /\ includes(last.trace, "write")) => last.rid \notin tmpFiles

\* A fetch has just ended with invalid_bundle and its temporary file is on disk.
C4_Witness ==
  /\ last.cmd = "fetch"
  /\ last.error = "invalid_bundle"
  /\ last.rid \in tmpFiles

\* C5: with the CLI configured and the API answering, discardCommand completes
\* without error for every id, whether or not its quarantine branch or a matching
\* remote session exists, and a second discard of the same id ends as the first
\* and leaves the repository the first left.
C5_DiscardCompletes ==
  last = Idle =>
    \A id \in Ids : \A e \in LocalEnvs(id) :
      (e.cfgOk /\ e.listOk) =>
        \A o \in {DiscardOutcome(repo, tmpFiles, id, e)} :
          /\ ~o.res.uncaught
          /\ o.res.status = "discarded"
          /\ \A o2 \in {DiscardOutcome(o.repo, o.tmp, id, e)} :
               o2.res = o.res /\ o2.repo = o.repo

\* A discard of an abbreviated id no session matches has just died of the
\* error resolveSessionId threw.
C5_Witness ==
  /\ last.cmd = "discard"
  /\ last.uncaught
  /\ last.code = UNCAUGHT_EXIT
  /\ last.message = <<"No", "session", "found", "matching">>
  /\ last.status # "discarded"

\* C6: whenever discardCommand has reported `discarded` for an id, the quarantine
\* branch of that id does not exist, whichever branch is checked out.
C6_DiscardedBranchGone ==
  (last.cmd = "discard" /\ last.status = "discarded") => LastBranch \notin DOMAIN repo.refs

\* A discard has just reported `discarded` for the branch that is checked out,
\* and the branch is still there.
C6_Witness ==
  /\ last.cmd = "discard"
  /\ last.status = "discarded"
  /\ ~last.uncaught
  /\ repo.head = LastBranch
  /\ LastBranch \in DOMAIN repo.refs

\* What apply, diff and log each give for the id, whatever their options.
LocalOutcomes(id, e) ==
  {ApplyOutcome(repo, tmpFiles, id, force, e) : force \in BOOLEAN}
    \cup {DiffOutcome(repo, tmpFiles, id, stat, d, e) : stat \in BOOLEAN, d \in DiffErrors}
    \cup {LogOutcome(repo, tmpFiles, id, e)}

\* C7: applyCommand for an id whose quarantine branch does not exist ends with
\* branch_not_found and exit code NOT_FOUND under a message naming `chucky fetch`,
\* runs no merge, and leaves HEAD, the working tree and the branches as they
\* were; diffCommand and logCommand end with the same error.
C7_BranchNotFound ==
  last = Idle =>
    \A id \in Ids : \A e \in LocalEnvs(id) :
      (Configured(id, e) /\ Quarantine(id, e) \notin DOMAIN repo.refs) =>
        \A o \in LocalOutcomes(id, e) :
          /\ o.res.error = "branch_not_found"
          /\ o.res.code = NOT_FOUND
          /\ includes(o.res.message, "chucky fetch")
          /\ ~includes(o.res.trace, "applyBranch")
          /\ ~includes(o.res.trace, "applyBranch:force")
          /\ o.repo = repo
          /\ o.tmp = tmpFiles

\* An apply has just ended with branch_not_found.
C7_Witness ==
  /\ last.cmd = "apply"
  /\ last.error = "branch_not_found"
  /\ last.code = NOT_FOUND
  /\ LastBranch \notin DOMAIN repo.refs

\* applyCommand with default options has fast-forwarded: HEAD is the tip t, no
\* commit is new, merge_commit is false and the branch bn is gone.
FastForwarded(o, t, bn) ==
  /\ o.res.status = "applied"
  /\ o.res.merge_commit = FALSE
  /\ HeadCommit(o.repo) = t
  /\ o.repo.head = repo.head
  /\ AllCommits(o.repo) \subseteq AllCommits(repo)
  /\ bn \notin DOMAIN o.repo.refs

\* C8 as the spec states it: whenever HEAD is an ancestor of the quarantine tip,
\* applyCommand with default options fast-forwards.
C8_FastForwardAsStated ==
  last = Idle =>
    \A id \in Ids : \A e \in LocalEnvs(id) :
      (/\ Configured(id, e)
       /\ Quarantine(id, e) \in DOMAIN repo.refs
       /\ IsAncestor(HeadCommit(repo), repo.refs[Quarantine(id, e)])) =>
        FastForwarded(ApplyOutcome(repo, tmpFiles, id, FALSE, e),
                      repo.refs[Quarantine(id, e)], Quarantine(id, e))

\* C8: when HEAD is an ancestor of the quarantine tip, the quarantine branch is
\* not the branch checked out, no merge is in progress and no file differing
\* between HEAD and the tip has uncommitted changes, applyCommand with default
\* options moves HEAD to the tip, creates no commit, reports merge_commit =
\* false and deletes the quarantine branch.
C8_FastForward ==
  last = Idle =>
    \A id \in Ids : \A e \in LocalEnvs(id) :
      (/\ Configured(id, e)
       /\ Quarantine(id, e) \in DOMAIN repo.refs
       /\ IsAncestor(HeadCommit(repo), repo.refs[Quarantine(id, e)])
       /\ repo.head # Quarantine(id, e)
       /\ repo.mergeHead = NoCommit
       /\ repo.dirty \cap DiffPaths(HeadCommit(repo).tree,
                                    repo.refs[Quarantine(id, e)].tree) = {}) =>
        FastForwarded(ApplyOutcome(repo, tmpFiles, id, FALSE, e),
                      repo.refs[Quarantine(id, e)], Quarantine(id, e))

\* An apply with default options has just fast-forwarded HEAD to an agent commit.
C8_Witness ==
  /\ last.cmd = "apply"
  /\ ~last.force
  /\ last.status = "applied"
  /\ ~last.merge_commit
  /\ last.commits > 0
  /\ HeadCommit(repo).author = "agent"
  /\ LastBranch \notin DOMAIN repo.refs

\* Each of the two commits has a commit the other lacks.
Diverged(h, t) == ~IsAncestor(h, t) /\ ~IsAncestor(t, h)

\* The three-way merge of h and t leaves no file in conflict.
MergesCleanly(h, t) == \A p \in Paths : MergedTree(h, t)[p] # ConflictMark

\* applyCommand has merged t into h: the branch checked out has exactly one new
\* commit, with parents h and t and the message `Merge <bn>`, and bn is gone.
Merged(o, h, t, bn) ==
  /\ o.res.status = "applied"
  /\ o.repo.head = repo.head
  /\ HeadCommit(o.repo).parents = <<h, t>>
  /\ HeadCommit(o.repo).msg = <<"Merge">> \o bn
  /\ AllCommits(o.repo) \ AllCommits(repo) = {HeadCommit(o.repo)}
  /\ bn \notin DOMAIN o.repo.refs

C10_ForceMergeCommit ==
  last = Idle =>
    \A bn \in DOMAIN repo.refs :
      (/\ IsQuarantine(bn)
       /\ ~IsAncestor(repo.refs[bn], HeadCommit(repo))) =>
        \A a \in {applyBranch(repo, bn, TRUE)} :
          ~a.threw =>
            /\ HeadCommit(a.repo) \notin AllCommits(repo)
            /\ Len(HeadCommit(a.repo).parents) = 2
            /\ HeadCommit(a.repo).msg = <<"Merge">> \o bn

\* An apply with force has just succeeded and reported a merge commit, and HEAD
\* is the agent's commit itself.
C10_Witness ==
  /\ last.cmd = "apply"
  /\ last.force
  /\ last.status = "applied"
  /\ last.merge_commit
  /\ last.trace = <<"branchExists", "applyBranch:force">>
  /\ HeadCommit(repo).author = "agent"
  /\ Len(HeadCommit(repo).parents) = 1

\* The merge of bn into HEAD is one git starts and stops on a content conflict:
\* the two have diverged, some file conflicts, no merge is in progress and no
\* uncommitted change is in the way.
StopsOnConflict(R, bn) ==
  /\ Diverged(HeadCommit(R), R.refs[bn])
  /\ ~MergesCleanly(HeadCommit(R), R.refs[bn])
  /\ R.mergeHead = NoCommit
  /\ R.dirty \cap DiffPaths(HeadCommit(R).tree, MergedTree(HeadCommit(R), R.refs[bn])) = {}

\* C11: when the merge applyCommand runs, with force or through the fallback,
\* stops on a content conflict, applyCommand ends with merge_conflict and exit
\* code CONFLICT.
C11_ConflictReported ==
  last = Idle =>
    \A id \in Ids : \A e \in LocalEnvs(id) : \A force \in BOOLEAN :
      (/\ Configured(id, e)
       /\ Quarantine(id, e) \in DOMAIN repo.refs
       /\ StopsOnConflict(repo, Quarantine(id, e))) =>
        \A o \in {ApplyOutcome(repo, tmpFiles, id, force, e)} :
          o.res.error = "merge_conflict" /\ o.res.code = CONFLICT

\* An apply has just left a conflicted merge behind and ended with apply_failed
\* under the message the git wrapper makes up for an empty stderr.
C11_Witness ==
  /\ last.cmd = "apply"
  /\ last.error = "apply_failed"
  /\ last.code = NETWORK_ERROR
  /\ last.message = <<"git", "merge", "failed">>
  /\ repo.mergeHead = repo.refs[LastBranch]

\* C12: when the merge of applyBranch fails, applyBranch leaves the repository as
\* the failed git merge left it, and so does applyCommand when it ends in an
\* error: every branch, the quarantine branch included, keeps its tip, HEAD and
\* the working tree are as before, and a merge that stopped on a conflict is
\* still in progress.
C12_FailedMergeKeepsBranch ==
  last = Idle =>
    /\ \A bn \in DOMAIN repo.refs : \A force \in BOOLEAN :
         (IsQuarantine(bn) /\ GitMerge(repo, bn, ~force).status # 0) =>
           \A a \in {applyBranch(repo, bn, force)} :
             /\ a.threw
             /\ a.repo = GitMerge(repo, bn, ~force).repo
             /\ a.repo.refs = repo.refs
    /\ \A id \in Ids : \A e \in LocalEnvs(id) : \A force \in BOOLEAN :
         (Configured(id, e) /\ Quarantine(id, e) \in DOMAIN repo.refs) =>
           \A o \in {ApplyOutcome(repo, tmpFiles, id, force, e)} :
             o.res.status # "applied" =>
               /\ o.repo.refs = repo.refs
               /\ o.repo.head = repo.head
               /\ o.repo.dirty = repo.dirty
               /\ StopsOnConflict(repo, Quarantine(id, e)) =>
                    o.repo.mergeHead = repo.refs[Quarantine(id, e)]

\* An apply has just failed in its merge: the quarantine branch is there and the
\* conflicted merge is in progress.
C12_Witness ==
  /\ last.cmd = "apply"
  /\ last.error \in {"apply_failed", "merge_conflict"}
  /\ includes(last.trace, "applyBranch:force")
  /\ LastBranch \in DOMAIN repo.refs
  /\ repo.mergeHead = repo.refs[LastBranch]
  /\ repo.head # LastBranch

\* The same configuration and session list as e, the bundle API offering a bundle
\* of one agent commit on the root commit, and the download going through.
Refetch(e) ==
  Env(e.cfgOk, e.listOk, e.sessions, "changes", "ok",
      Bundle(TRUE, Root, TRUE, AgentCommit(Root, "f")))

\* C13: per changeset id the quarantine branch goes absent -> fetched ->
\* applied or discarded: apply changes the repository only when the branch is
\* there, an apply that reports `applied` and a discard that reports `discarded`
\* leave the branch absent, and a fetch of the same id after either is not
\* rejected with branch_exists and reaches `fetched` again.
C13_Lifecycle ==
  last = Idle =>
    \A id \in Ids : \A e \in LocalEnvs(id) : \A force \in BOOLEAN :
      Configured(id, e) =>
        /\ Quarantine(id, e) \notin DOMAIN repo.refs =>
             ApplyOutcome(repo, tmpFiles, id, force, e).repo = repo
        /\ \A o \in {ApplyOutcome(repo, tmpFiles, id, force, e),
                     DiscardOutcome(repo, tmpFiles, id, e)} :
             o.res.status \in {"applied", "discarded"} =>
               /\ Quarantine(id, e) \notin DOMAIN o.repo.refs
               /\ \A f \in {FetchOutcome(o.repo, o.tmp, id, Refetch(e))} :
                    f.res.error # "branch_exists" /\ f.res.status = "fetched"

\* A discard has just reported `discarded`, and a fetch of the same id would
\* still find the quarantine branch.
C13_Witness ==
  /\ last.cmd = "discard"
  /\ last.status = "discarded"
  /\ branchExists(repo, LastBranch)
  /\ \E e \in LocalEnvs(last.id) :
       /\ Configured(last.id, e)
       /\ FetchOutcome(repo, tmpFiles, last.id, Refetch(e)).res.error = "branch_exists"

\* C14: a command (fetch, diff, log, apply, discard or pull) never rewinds or
\* rewrites history: the commit HEAD named before the command is the commit HEAD
\* names after it or one of its ancestors, and every branch the command removed
\* is a quarantine branch.
C14_HistoryOnlyGrows ==
  [][(last = Idle /\ last' # Idle) =>
       /\ IsAncestor(HeadCommit(repo), HeadCommit(repo'))
       /\ \A b \in DOMAIN repo.refs \ DOMAIN repo'.refs : IsQuarantine(b)]_vars

\* A pull has merged diverged histories: HEAD is a new merge commit over the
\* developer's own commit and the quarantine branch is deleted.
C14_Witness ==
  /\ last.cmd = "pull"
  /\ last.status = "applied"
  /\ last.merge_commit
  /\ Len(HeadCommit(repo).parents) = 2
  /\ HeadCommit(repo).parents[1].author = "user"
  /\ HeadCommit(repo).parents[1] # Root
  /\ LastBranch \notin DOMAIN repo.refs

C16_FetchAddsOneBranch ==
  last = Idle =>
    \A id \in Ids : \A e \in FetchEnvs(repo, id) :
      \A o \in {FetchOutcome(repo, tmpFiles, id, e)} :
        IF o.res.status = "fetched"
          THEN /\ Quarantine(id, e) \notin DOMAIN repo.refs
               /\ DOMAIN o.repo.refs = DOMAIN repo.refs \cup {Quarantine(id, e)}
               /\ \A b \in DOMAIN repo.refs : o.repo.refs[b] = repo.refs[b]
               /\ o.repo.head = repo.head
               /\ HeadCommit(o.repo) = HeadCommit(repo)
               /\ o.repo.dirty = repo.dirty
               /\ o.repo.mergeHead = repo.mergeHead
          ELSE o.repo.refs = repo.refs

\* A fetch has ended with `fetched` in a repository where the developer has a
\* commit of their own and an uncommitted edit: the new branch is there, the
\* developer's branch is still checked out and the edit is still uncommitted.
C16_Witness ==
  /\ last.cmd = "fetch"
  /\ last.status = "fetched"
  /\ LastBranch \in DOMAIN repo.refs
  /\ repo.head = Main
  /\ HeadCommit(repo) # Root
  /\ repo.dirty # {}

\* The sum of field f over the entries of a diff that are not binary.
RECURSIVE LinesOf(_, _)
LinesOf(cs, f) ==
  IF cs = <<>> THEN 0
  ELSE (IF Head(cs).binary THEN 0 ELSE Head(cs)[f]) + LinesOf(Tail(cs), f)

\* The lists of getBundleStats that hold the file of the i-th entry.
ListsHolding(i) ==
  {l \in {"filesAdded", "filesModified", "filesDeleted"} :
     \E k \in DOMAIN bundleStats.value[l] : bundleStats.value[l][k] = JoinTab(changes[i].paths)}

\* C17: whatever status letters the name-status diff carries, getBundleStats
\* puts the file of every line into exactly one of filesAdded, filesModified
\* and filesDeleted, and the three lengths add up to the number of changed
\* paths the diff reports.
C17_EveryPathClassified ==
  bundleStats.done =>
    /\ Len(bundleStats.value.filesAdded) + Len(bundleStats.value.filesModified)
         + Len(bundleStats.value.filesDeleted) = Len(changes)
    /\ \A i \in DOMAIN changes : Cardinality(ListsHolding(i)) = 1

\* getBundleStats has run on a diff of a renamed file and a file whose type
\* changed, and all three lists are empty.
C17_Witness ==
  /\ bundleStats.done
  /\ Len(changes) = 2
  /\ changes[1].status = <<"R", "100">>
  /\ changes[2].status = <<"T">>
  /\ bundleStats.value.filesAdded = <<>>
  /\ bundleStats.value.filesModified = <<>>
  /\ bundleStats.value.filesDeleted = <<>>

\* C18: insertions and deletions are the sums of the added and the removed
\* line counts over the entries of the diff that are not binary, and a binary
\* entry, which adds nothing to either sum, still has its file in one of
\* filesAdded, filesModified and filesDeleted.
C18_CountsSummed ==
  bundleStats.done =>
    /\ bundleStats.value.insertions = LinesOf(changes, "added")
    /\ bundleStats.value.deletions = LinesOf(changes, "removed")
    /\ \A i \in DOMAIN changes : changes[i].binary => ListsHolding(i) # {}

\* getBundleStats has run on a diff of a changed text file and a renamed binary
\* file: the text file's lines are counted, the binary file is in no list.
C18_Witness ==
  /\ bundleStats.done
  /\ Len(changes) = 2
  /\ ~changes[1].binary
  /\ changes[1].added = 12
  /\ changes[2].binary
  /\ changes[2].status = <<"R", "100">>
  /\ bundleStats.value.insertions = 12
  /\ ListsHolding(2) = {}

\* C19: what a successful applyCommand reports is what getBundleStats gives
\* for HEAD against the quarantine branch before any merge ran, whether the
\* apply fast-forwarded, merged under force or fell back to a merge: the
\* commits are those of the quarantine branch that HEAD did not have, the
\* files, insertions and deletions those of the diff from the old HEAD to the
\* tip; a merge commit made by the apply is not among the commits counted.
C19_StatsBeforeMerge ==
  last = Idle =>
    \A id \in Ids : \A e \in LocalEnvs(id), force \in BOOLEAN :
      (Configured(id, e) /\ Quarantine(id, e) \in DOMAIN repo.refs) =>
        \A o \in {ApplyOutcome(repo, tmpFiles, id, force, e)} :
          \A st \in {getBundleStats(repo, Quarantine(id, e))} :
            o.res.status = "applied" =>
              /\ o.res.commits = st.commits
              /\ o.res.commits
                   = Cardinality(Ancestors(repo.refs[Quarantine(id, e)])
                                   \ Ancestors(HeadCommit(repo)))
              /\ o.res.files
                   = Len(st.filesAdded) + Len(st.filesModified) + Len(st.filesDeleted)
              /\ o.res.insertions = st.insertions
              /\ o.res.deletions = st.deletions

\* An apply without force has fallen back to a merge commit and reports the
\* one commit of the quarantine branch and the two files in which the old HEAD
\* and the tip differed.
C19_Witness ==
  /\ last.cmd = "apply"
  /\ last.status = "applied"
  /\ ~last.force
  /\ last.merge_commit
  /\ Len(HeadCommit(repo).parents) = 2
  /\ last.commits = 1
  /\ last.files = 2
  /\ last.insertions = 2
  /\ last.deletions = 2

\* C20: pullCommand is fetchCommand followed by applyCommand on the same ID,
\* and the apply starts only after a fetch that succeeded. When the fetch ends
\* with an error (no_changes, branch_exists, invalid_bundle, download_failed or
\* any other), the pull ends with that error and that exit code, no merge has
\* been attempted and the repository is as the fetch left it; when the fetch
\* ends with `fetched`, the pull ends as applyCommand on the same ID ends in
\* the repository the fetch left.
C20_PullIsFetchThenApply ==
  last = Idle =>
    \A id \in Ids, force \in BOOLEAN : \A e \in FetchEnvs(repo, id) :
      \A f \in {FetchOutcome(repo, tmpFiles, id, e)} :
        \A p \in {PullOutcome(repo, tmpFiles, id, force, e)} :
          IF f.res.status = "fetched"
            THEN \A a \in {ApplyOutcome(f.repo, f.tmp, id, force, e)} :
                   /\ p.repo = a.repo
                   /\ p.res.rid = f.res.rid
                   /\ p.res.rid = a.res.rid
                   /\ p.res.status = a.res.status
                   /\ p.res.error = a.res.error
                   /\ p.res.code = a.res.code
                   /\ p.res.trace = f.res.trace \o a.res.trace
            ELSE /\ f.res.error # "none" \/ f.res.uncaught
                 /\ p.res.error = f.res.error
                 /\ p.res.code = f.res.code
                 /\ p.res.uncaught = f.res.uncaught
                 /\ p.res.status # "applied"
                 /\ ~includes(p.res.trace, "applyBranch")
                 /\ ~includes(p.res.trace, "applyBranch:force")
                 /\ p.repo = f.repo

\* A pull has ended with `no_changes` and the exit code of that error, without
\* a merge.
C20_Witness ==
  /\ last.cmd = "pull"
  /\ last.error = "no_changes"
  /\ last.code = NO_CHANGES
  /\ includes(last.trace, "getBundle")
  /\ ~includes(last.trace, "applyBranch")
  /\ ~includes(last.trace, "applyBranch:force")

\* C21 as stated: the eight exit codes are pairwise distinct, every error tag
\* has one code, and no two different error tags have the same code.
C21_OneTagPerCode ==
  /\ Cardinality(ExitCodes) = 8
  /\ \A x, y \in ErrorSites : x.tag = y.tag => x.code = y.code
  /\ \A x, y \in ErrorSites : x.code = y.code => x.tag = y.tag
  /\ last.error # "none" => Site(last.error, last.code) \in ErrorSites

\* C21: the eight exit codes are pairwise distinct and no command ends with
\* another code; every error tag is raised with one code wherever it is raised,
\* and every command that ends with an error tag ends with that tag's code.
\* Several tags share one code.
C21_OneCodePerTag ==
  /\ Cardinality(ExitCodes) = 8
  /\ \A x \in ErrorSites : x.code \in ExitCodes \ {SUCCESS}
  /\ \A x, y \in ErrorSites : x.tag = y.tag => x.code = y.code
  /\ last.code \in ExitCodes
  /\ last.error # "none" => Site(last.error, last.code) \in ErrorSites
  /\ (last.error = "none" /\ ~last.uncaught) => last.code = SUCCESS

\* A fetch has ended with invalid_bundle under the exit code that branch_exists
\* and merge_conflict have too.
C21_Witness ==
  /\ last.cmd = "fetch"
  /\ last.error = "invalid_bundle"
  /\ last.code = CONFLICT
  /\ Site("branch_exists", last.code) \in ErrorSites
  /\ Site("merge_conflict", last.code) \in ErrorSites

\* C22: every run of fetch, apply, diff, log and discard ends with its success
\* payload or through exitWithError with an error tag and a code of ExitCode;
\* no failure of git, of the API, of the resolving of a session ID or of the
\* download leaves the command as an uncaught exception.
C22_NothingUncaught ==
  last.cmd \in {"fetch", "apply", "diff", "log", "discard"} =>
    /\ ~last.uncaught
    /\ last.code \in ExitCodes
    /\ \/ last.error = "none" /\ last.status # "none" /\ last.code = SUCCESS
       \/ last.error # "none" /\ last.status = "none" /\ last.code # SUCCESS

\* A fetch has died of the error the aborted download threw: no error tag, no
\* payload.
C22_Witness ==
  /\ last.cmd = "fetch"
  /\ includes(last.trace, "write")
  /\ last.uncaught
  /\ last.error = "none"
  /\ last.status = "none"

\* C23: when the git process of getFullDiff overruns the output buffer
\* (ENOBUFS), diffCommand ends without an error: it gives the too-large notice
\* with the file counts of getBundleStats and exits with SUCCESS, the
\* repository untouched; any other failure of getFullDiff gives no notice and
\* no statistics but ends the command as a failure.
C23_OversizedDiff ==
  last = Idle =>
    \A id \in Ids : \A e \in LocalEnvs(id) :
      (Configured(id, e) /\ Quarantine(id, e) \in DOMAIN repo.refs) =>
        \A d \in DiffErrors \ {"none"} :
          \A o \in {DiffOutcome(repo, tmpFiles, id, FALSE, d, e)} :
            \A st \in {getBundleStats(repo, Quarantine(id, e))} :
              IF d = "ENOBUFS"
                THEN /\ o.res.status = "too_large"
                     /\ o.res.error = "none"
                     /\ ~o.res.uncaught
                     /\ o.res.code = SUCCESS
                     /\ includes(o.res.trace, "getBundleStats")
                     /\ Preceded(o.res.trace, "getBundleStats", "getFullDiff")
                     /\ o.res.files
                          = Len(st.filesAdded) + Len(st.filesModified) + Len(st.filesDeleted)
                     /\ o.repo = repo
                ELSE /\ o.res.status = "none"
                     /\ o.res.error = "diff_failed" \/ o.res.uncaught
                     /\ o.res.code # SUCCESS
                     /\ ~includes(o.res.trace, "getBundleStats")

\* A diff of a quarantine branch with one changed file has ended with the
\* too-large notice and SUCCESS.
C23_Witness ==
  /\ last.cmd = "diff"
  /\ last.status = "too_large"
  /\ last.code = SUCCESS
  /\ last.files = 1
  /\ LastBranch \in DOMAIN repo.refs

\* C24: the automatic apply paths work on the branch that fetch, diff, log,
\* apply and discard derive for the same job or session ID, so a branch one of
\* them left is the branch the others find.
C24_SameBranchName ==
  auto.pc # "idle" =>
    /\ AutoBranchName(auto.kind, auto.id) = BranchName(auto.kind = "session", auto.id)
    /\ AutoBranchName(auto.kind, auto.id) \in DOMAIN repo.refs
         => branchExists(repo, BranchName(auto.kind = "session", auto.id))
    /\ (auto.outcome # "skipped"
          /\ BranchName(auto.kind = "session", auto.id) \in DOMAIN repo.refs)
         => AutoBranchName(auto.kind, auto.id) \in DOMAIN repo.refs

\* The automatic apply of a job has failed in its merge and left its branch,
\* and `chucky apply` of that job finds no branch.
C24_Witness ==
  /\ auto.pc = "done"
  /\ auto.kind = "job"
  /\ auto.outcome = "failed"
  /\ AutoBranchName("job", auto.id) \in DOMAIN repo.refs
  /\ repo.mergeHead # NoCommit
  /\ \A e \in LocalEnvs(auto.id) :
       Configured(auto.id, e) =>
         ApplyOutcome(repo, tmpFiles, auto.id, FALSE, e).res.error = "branch_not_found"

\* The sessions the given string is a prefix of, among those listed.
Matching(id, sessions) == {x \in sessions : startsWith(x, id)}

\* C25 as stated: for every string that does not start with `run_`, the lookup
\* returns an id only when the string is a prefix of exactly one known session
\* (and then that session's id); with no matching session it fails with the
\* not-found error, with several with the ambiguous error.
C25_ResolvedAsStated ==
  (lookup.done /\ lookup.listOk /\ ~isJobId(lookup.id)) =>
    \A matches \in {Matching(lookup.id, lookup.sessions)} :
      /\ ~lookup.result.threw =>
           Cardinality(matches) = 1 /\ lookup.result.value \in matches
      /\ Cardinality(matches) = 0 =>
           lookup.result.threw /\ lookup.result.error.message[1] = "No"
      /\ Cardinality(matches) > 1 =>
           lookup.result.threw /\ lookup.result.error.message[1] = "Ambiguous"

\* C25, amended: the rule holds for every string shorter than a UUID that does
\* not start with `run_`, when the listing was obtained; a string of the length
\* of a UUID or longer is returned unchanged whether or not it names a session,
\* and a string starting with `run_` is returned unchanged as a job id.
C25_Resolved ==
  lookup.done =>
    \A matches \in {Matching(lookup.id, lookup.sessions)} :
      /\ (isJobId(lookup.id) \/ Len(lookup.id) >= UUID_LEN) =>
           ~lookup.result.threw /\ lookup.result.value = lookup.id
      /\ (~isJobId(lookup.id) /\ Len(lookup.id) < UUID_LEN /\ lookup.listOk) =>
           /\ ~lookup.result.threw =>
                Cardinality(matches) = 1 /\ lookup.result.value \in matches
           /\ Cardinality(matches) = 0 =>
                lookup.result.threw /\ lookup.result.error.message[1] = "No"
           /\ Cardinality(matches) > 1 =>
                lookup.result.threw /\ lookup.result.error.message[1] = "Ambiguous"
           /\ Cardinality(matches) = 1 => ~lookup.result.threw

\* A string as long as a UUID that is the id of none of the listed sessions has
\* been returned as the resolved id.
C25_Witness ==
  /\ lookup.done
  /\ lookup.listOk
  /\ lookup.id = Unknown
  /\ lookup.sessions = {SessA, SessB}
  /\ Matching(lookup.id, lookup.sessions) = {}
  /\ ~lookup.result.threw
  /\ lookup.result.value = Unknown

\* The calls of applyBranch among the steps of a command, in order.
Attempts(trace) == SelectSeq(trace, LAMBDA x : x \in {"applyBranch", "applyBranch:force"})

\* C26: applyCommand calls applyBranch at most twice. With force it is called
\* once, with force. Without force the first call is fast-forward-only, and a
\* second call, with force, follows exactly when HEAD and the branch have
\* diverged and git got as far as refusing the fast-forward; any other failure
\* of the first call ends the command. The refusal to fast-forward is never
\* the error reported, and a divergence with nothing else in the way ends in
\* `applied`.
C26_TwoAttempts ==
  last = Idle =>
    \A id \in Ids, force \in BOOLEAN : \A e \in LocalEnvs(id) :
      (Configured(id, e) /\ Quarantine(id, e) \in DOMAIN repo.refs) =>
        \A o \in {ApplyOutcome(repo, tmpFiles, id, force, e)} :
        \A h \in {HeadCommit(repo)}, t \in {repo.refs[Quarantine(id, e)]} :
          /\ Len(Attempts(o.res.trace)) <= 2
          /\ force => Attempts(o.res.trace) = <<"applyBranch:force">>
          /\ ~force => Attempts(o.res.trace)[1] = "applyBranch"
          /\ ~force =>
               (Attempts(o.res.trace) = <<"applyBranch", "applyBranch:force">>
                  <=> (Diverged(h, t) /\ repo.mergeHead = NoCommit))
          /\ (~force /\ ~(Diverged(h, t) /\ repo.mergeHead = NoCommit)) =>
               Attempts(o.res.trace) = <<"applyBranch">>
          /\ ~includes(o.res.message, "fast-forward")
          /\ (/\ Diverged(h, t)
              /\ MergesCleanly(h, t)
              /\ repo.mergeHead = NoCommit
              /\ repo.dirty \cap DiffPaths(h.tree, MergedTree(h, t)) = {}) =>
               o.res.status = "applied" /\ o.res.error = "none"

\* An apply with default options has just been refused its fast-forward, tried
\* again with a merge commit and ended there on uncommitted changes: the error
\* is that of the second attempt.
C26_Witness ==
  /\ last.cmd = "apply"
  /\ ~last.force
  /\ Attempts(last.trace) = <<"applyBranch", "applyBranch:force">>
  /\ last.error = "apply_failed"
  /\ includes(last.message, "local")
  /\ repo.dirty # {}
  /\ LastBranch \in DOMAIN repo.refs

\* C27: whenever applySessionChanges or applyJobChanges has returned after the
\* bundle was written to its temporary path, the temporary file is gone.
C27_TempFileDeleted ==
  (auto.pc = "done" /\ auto.written) => auto.id \notin tmpFiles

\* applySessionChanges has returned on a bundle that failed its verification,
\* and the bundle file is still in the temporary directory.
C27_Witness ==
  /\ auto.pc = "done"
  /\ auto.kind = "session"
  /\ auto.written
  /\ auto.outcome = "invalid_bundle"
  /\ auto.id \in tmpFiles
  /\ AutoBranchName(auto.kind, auto.id) \notin DOMAIN repo.refs

\* The polling loop as it stands in a state: the calls made so far, and what
\* the last of them answered.
PollingShape ==
  /\ auto.calls <= maxRetries(auto.kind)
  /\ auto.pc = "poll" =>
       /\ auto.attempt <= maxRetries(auto.kind)
       /\ auto.calls = auto.attempt - 1
       /\ auto.calls > 0 => auto.answer \in {"not_found", "no_bundle"}
  /\ auto.pc = "got" => auto.answer \in {"changes", "nochanges"}
  /\ (auto.pc = "done" /\ auto.calls > 0 /\ auto.answer \notin {"changes", "nochanges"}) =>
       /\ auto.outcome = "failed"
       /\ auto.answer = "other" \/ auto.calls = maxRetries(auto.kind)

\* C28: the polling for the bundle makes at most maxRetries calls (10 for a
\* session, 15 for a job); it calls again only after a not-found or no-bundle
\* error of a call before the last, makes no call after the first success, and
\* any other error, or an error of the last call, ends the apply as failed.
C28_PollingBounded ==
  /\ []PollingShape
  /\ [][/\ auto'.calls \in {auto.calls, auto.calls + 1}
        /\ auto'.calls = auto.calls + 1 =>
             /\ auto.pc = "poll"
             /\ auto.calls > 0 => /\ auto.answer \in {"not_found", "no_bundle"}
                                  /\ auto.calls < maxRetries(auto.kind)
        /\ auto.pc \in {"got", "done"} => auto'.calls = auto.calls]_vars

\* The polling for a job's bundle has made its fifteenth call, which answered
\* not found like those before it, and the apply has ended as failed.
C28_Witness ==
  /\ auto.pc = "done"
  /\ auto.kind = "job"
  /\ auto.calls = JOB_MAX_RETRIES
  /\ auto.attempt = JOB_MAX_RETRIES
  /\ auto.answer = "not_found"
  /\ auto.outcome = "failed"
  /\ ~auto.written

\* C29: whenever applyCommand ends in `applied`, for either value of force and
\* any relation between HEAD and the quarantine branch, merge_commit is true
\* exactly when HEAD is afterwards a commit that was not there before and has
\* two parents.
C29_MergeCommitFlag ==
  last = Idle =>
    \A id \in Ids, force \in BOOLEAN : \A e \in LocalEnvs(id) :
      (Configured(id, e) /\ Quarantine(id, e) \in DOMAIN repo.refs) =>
        \A o \in {ApplyOutcome(repo, tmpFiles, id, force, e)} :
          o.res.status = "applied" =>
            (o.res.merge_commit
               <=> /\ HeadCommit(o.repo) \notin AllCommits(repo)
                   /\ Len(HeadCommit(o.repo).parents) = 2)

\* A pull with force has just fetched the agent's commit and applied it: HEAD
\* was fast-forwarded to that commit, which has one parent, and the result says
\* merge_commit.
C29_Witness ==
  /\ last.cmd = "pull"
  /\ last.force
  /\ last.status = "applied"
  /\ last.merge_commit
  /\ Attempts(last.trace) = <<"applyBranch:force">>
  /\ HeadCommit(repo).author = "agent"
  /\ Len(HeadCommit(repo).parents) = 1
  /\ repo.mergeHead = NoCommit

\* C30: for every value given to --timeout, a waitCommand that is polling
\* comes to an end.
C30_WaitTerminates == (wait.pc = "poll") ~> (wait.pc = "done")

\* waitCommand was given a timeout that is no number, the clock is past the
\* default of 300 seconds, the job is still running and the command polls on.
C30_Witness ==
  /\ wait.pc = "poll"
  /\ wait.option = <<"a", "b", "c">>
  /\ wait.isNaN
  /\ wait.clock = MaxClock
  /\ wait.clock > DecimalValue(DefaultTimeout)
  /\ wait.job = "running"

====
